---- MODULE Spec2Model ----
(***************************************************************************)
(* A model of the Pipedrive sales-queue service: the cursor-driven paged   *)
(* fetch (SalesQueueService.fetchAllActivitiesByFilter /                   *)
(* fetchAllDealsByFilter), the batched bulk fetch                          *)
(* (PipedriveClient.getPersonsBulk / getOrganizationsBulk / getDealsBulk)  *)
(* and the digest build (SalesQueueService.getSalesQueueDigest).           *)
(*                                                                         *)
(* JavaScript runs each async function to completion between two awaits,   *)
(* so one action is the code from one await to the next: the arrival of an *)
(* upstream response (or failure) together with everything the code does   *)
(* until it issues its next request or returns.  A request is one call of  *)
(* a PipedriveClient method.                                               *)
(*                                                                         *)
(* Strings are modelled as tuples: <<>> is the empty string, and           *)
(* <<"Stage", 3>> is the text "Stage 3".  An optional value is <<>> when   *)
(* absent (undefined, null) and <<v>> when present.  The number 0 is the   *)
(* falsy identifier.  Where the code tells undefined from null (the scalar *)
(* fields of a deal) a value is <<"undefined">>, <<"null">>, <<"num", n>>  *)
(* or <<"str", s>>.  A Date is [day, tod]: a calendar day and an instant   *)
(* of that day, in the time zone of the build.                             *)
(***************************************************************************)
EXTENDS Integers, Sequences, FiniteSets, TLC

VARIABLES
    fetch,      \* per stream: the state of one fetchAll...ByFilter call
    upstream,   \* per stream: the remote collection behind the filter
    bulk,       \* per entity type: the state of one get...Bulk call
    registry,   \* per entity type: the remote's by-id listing
    dg,         \* the state of one getSalesQueueDigest call
    cache,      \* SalesQueueService.cache: key -> [value, expiresAt]
    clock,      \* the time Cache reads, in seconds
    en,         \* one enrichActivity / enrichDeal call: its arguments and result
    ld,         \* the loadStages calls of concurrent builds, and their history
    cf,         \* the createFilter calls of a client, its fieldMapCache and its requests
    fb,         \* one getWithV1Fallback call and the requests it sent
    vp,         \* one paged fetch whose page requests go to the v2 or the v1 API
    ge,         \* one getPerson / getOrganization / getStage call
    tl          \* one call of the miinta.sales_queue.get tool handler

vars == <<fetch, upstream, bulk, registry, dg, cache, clock, en, ld, cf, fb, vp, ge, tl>>

pagedVars == <<fetch, upstream>>
bulkVars == <<bulk, registry>>
digestVars == <<dg, cache, clock>>
enrichVars == <<en>>
stageVars == <<ld>>

(***************************************************************************)
(* Bounds of the model.                                                    *)
(***************************************************************************)
\* Largest `limit` a paged fetch is called with on its own.
MaxLimit == 250
\* Page requests of one paged fetch the upstream answers.
MaxCalls == 3
\* Size of the short page a misbehaving upstream may return.
ShortPage == 30
\* Largest number of identifiers a bulk fetch is called with on its own.
MaxIds == 250
\* The larger of the two section limits a digest is built with.
DigestLimit == 150
\* Size of a non-empty collection behind a filter in a digest build.
SourceSize == 120
\* loadStages calls in one history.
MaxStarts == 3
\* Advances of the clock in one history.
MaxTicks == 2
\* Calendar days are numbered 1..MaxDay.
MaxDay == 4
\* A day has the instants 0 (midnight) .. MaxTod.
MaxTod == 1

\* createFilter calls of one run with concurrent callers.
MaxFilterStarts == 2
\* Children of a group of a drawn condition tree.
MaxKids == 2
\* Fields of a drawn field listing.
MaxFields == 2

\* getWithV1Fallback calls of one run.
MaxFallbackStarts == 2

\* The largest number whose decimal numeral occurs as a string.
MaxNumeral == 299

(***************************************************************************)
(* Program constants.                                                      *)
(***************************************************************************)
\* Math.min(100, limit - activities.length)
MaxPageSize == 100
\* for (let i = 0; i < personIds.length; i += 100)
BulkBatchSize == 100
\* constructor(..., cacheTTL = 3600)
CacheTTL == 3600

Min(a, b) == IF a < b THEN a ELSE b

\* The three primary streams of a digest; the first two are fetched by
\* fetchAllActivitiesByFilter, the third by fetchAllDealsByFilter.
Streams == {"overdue", "today", "missing"}

ActivityStreams == {"overdue", "today"}

EntityTypes == {"person", "organization", "deal"}

\* `cursor: string | undefined`: <<>> is undefined, <<p>> a cursor string.
NoCursor == <<>>

\* JavaScript truthiness of a cursor (`if (cursor)`, `!nextCursor`).
Truthy(c) == c # NoCursor

\* a || b on strings.
Or(a, b) == IF a # <<>> THEN a ELSE b

Range(s) == {s[j] : j \in DOMAIN s}

(***************************************************************************)
(* The upstream collection behind a filter.  Items are identified by their *)
(* position in the collection; a cursor names the position after which the *)
(* next page starts.                                                       *)
(***************************************************************************)
CursorPos(c) == IF Truthy(c) THEN c[1] ELSE 0

PageItems(pos, m) == [j \in 1..m |-> pos + j]

\* The numbers of items a page may hold when `k` were requested.  A wild
\* upstream returns empty, short, full and over-full pages; a tame one
\* returns what is left of a collection of `size` items, at most `k`.
PageSizes(u, pos, k) ==
    IF u.wild
    THEN {0, Min(ShortPage, k), k - 1, k, k + 1}
    ELSE {Min(k, IF u.size > pos THEN u.size - pos ELSE 0)}

\* Whether the page's pagination block carries a next_cursor.
PageNexts(u, pos, m) ==
    IF u.wild
    THEN {NoCursor, <<pos + m>>}
    ELSE {IF pos + m < u.size THEN <<pos + m>> ELSE NoCursor}

\* PaginatedResponse<T>: the pages the upstream may answer a request with.
PageResponses(u, call) ==
    LET pos == CursorPos(call.cursor)
    IN  UNION { { [data |-> PageItems(pos, m), next |-> nx] :
                    nx \in PageNexts(u, pos, m) } :
                m \in PageSizes(u, pos, call.limit) }

(***************************************************************************)
(* The records of the collections.  A reference field of a raw record is   *)
(* <<"num", id>> (a bare number), <<"obj", id, name>> (a structured value),*)
(* <<"str", name>> (a bare string), <<"null">> or <<"undefined">>.         *)
(***************************************************************************)
Undefined == <<"undefined">>

Null == <<"null">>

\* JavaScript falsiness of a tagged value.
Falsy(v) ==
    \/ v[1] \in {"undefined", "null"}
    \/ v[1] = "num" /\ v[2] = 0
    \/ v[1] = "str" /\ v[2] = <<>>

\* Variant of OrJS that replaces only undefined and null (a ?? b).
OrJSNullish(a, b) == IF a[1] \in {"undefined", "null"} THEN b ELSE a

\* a || b on tagged values
OrJS(a, b) == IF Falsy(a) THEN b ELSE a

RawRef(id, name) ==
    IF id = 0 THEN <<"null">>
    ELSE IF name = <<>> THEN <<"num", id>> ELSE <<"obj", id, name>>

\* Variant of GetReferenceId that accepts bare numbers only.
GetReferenceIdBareOnly(v) == IF v[1] = "num" THEN v[2] ELSE 0

\* getReferenceId
GetReferenceId(v) == IF v[1] \in {"num", "obj"} THEN v[2] ELSE 0

\* getReferenceName
GetReferenceName(v) ==
    IF v[1] = "obj" THEN v[3] ELSE IF v[1] = "str" THEN v[2] ELSE <<>>

\* The raw activity at position i of an activity collection: every activity
\* references a person, every second one carrying the person's name; two
\* consecutive activities share an organization; two of three reference a
\* deal; due_date is the number of a calendar day.
RawActivity(s, i) ==
    [id          |-> IF s = "today" THEN 1000 + i ELSE i,
     person_id   |-> RawRef(i, IF i % 4 = 0 THEN <<"person", i>> ELSE <<>>),
     person_name |-> IF i % 4 = 1 THEN <<"person", i>> ELSE <<>>,
     org_id      |-> RawRef(i \div 2, <<>>),
     org_name    |-> IF i % 4 = 2 THEN <<"org", i \div 2>> ELSE <<>>,
     deal_id     |-> RawRef(IF i % 3 = 0 THEN 0 ELSE i, <<>>),
     deal_title  |-> IF i % 2 = 1 THEN <<"deal", i>> ELSE <<>>,
     due_date    |-> (i % MaxDay) + 1]

\* The raw deal at position i of the deal collection.
RawDeal(i) ==
    [id          |-> i,
     title       |-> <<"deal", i>>,
     stage_id    |-> (i % 3) + 1,
     person_id   |-> RawRef(IF i % 2 = 0 THEN i + 10 ELSE 0, <<>>),
     person_name |-> IF i % 4 = 0 THEN <<"person", i + 10>> ELSE <<>>,
     org_id      |-> RawRef(i + 60, IF i % 4 = 1 THEN <<"org", i + 60>> ELSE <<>>),
     org_name    |-> <<>>,
     owner_id    |-> IF i % 2 = 0 THEN <<"num", 5>> ELSE Undefined,
     undone_activities_count |-> <<"num", i % 3>>,
     next_activity_id        |-> Null,
     last_outgoing_mail_time |-> IF i % 3 = 0 THEN <<"str", <<"sent", i>> >> ELSE Null,
     last_incoming_mail_time |-> IF i % 3 = 1 THEN <<"str", <<"got", i>> >> ELSE Undefined]

\* normalizeActivity
NormalizeActivity(a) ==
    [a EXCEPT !.person_id = GetReferenceId(a.person_id),
              !.person_name = Or(a.person_name, GetReferenceName(a.person_id)),
              !.org_id = GetReferenceId(a.org_id),
              !.org_name = Or(a.org_name, GetReferenceName(a.org_id)),
              !.deal_id = GetReferenceId(a.deal_id),
              !.deal_title = Or(a.deal_title, GetReferenceName(a.deal_id))]

\* normalizeDeal
NormalizeDeal(d) ==
    [d EXCEPT !.person_id = GetReferenceId(d.person_id),
              !.person_name = Or(d.person_name, GetReferenceName(d.person_id)),
              !.org_id = GetReferenceId(d.org_id),
              !.org_name = Or(d.org_name, GetReferenceName(d.org_id)),
              !.owner_id = OrJS(<<"num", GetReferenceId(d.owner_id)>>, Undefined),
              !.next_activity_id =
                  OrJS(<<"num", GetReferenceId(d.next_activity_id)>>, Undefined)]

\* The record getActivitiesByFilter / getDealsByFilter hands out for the
\* item at position i: `normalized.data.map(normalizeActivity)`.
Activity(s, i) == NormalizeActivity(RawActivity(s, i))

Deal(i) == NormalizeDeal(RawDeal(i))

\* The entity the remote holds under identifier `id`: every third person has
\* no e-mail address, every second deal is in a stage the stage list lacks.
Entity(t, id) ==
    IF t = "person"
    THEN [id |-> id, name |-> <<"person", id>>,
          email |-> IF id % 3 = 0 THEN <<>>
                    ELSE <<[value |-> <<"work", id>>, primary |-> FALSE],
                           [value |-> <<"mail", id>>, primary |-> id % 3 = 1]>>]
    ELSE IF t = "organization"
    THEN [id |-> id, name |-> <<"org", id>>]
    ELSE [id |-> id, title |-> <<"deal", id>>, stage_id |-> (id % 2) + 2]

\* GET /stages: the stage list of the remote.
StageList == <<[id |-> 1, name |-> <<"Lead">>], [id |-> 2, name |-> <<"Won">>]>>

\* The stage list after an edit on the remote: a stage renamed, one added.
StageListEdited ==
    <<[id |-> 1, name |-> <<"Lead">>], [id |-> 2, name |-> <<"Closed">>],
      [id |-> 3, name |-> <<"Lost">>]>>

\* The lists getAllStages may be answered with.
StageLists == {StageList, StageListEdited}

Reverse(s) == [j \in 1..Len(s) |-> s[Len(s) + 1 - j]]

Tail0(s) == IF s = <<>> THEN <<>> ELSE Tail(s)

\* response.data.data for a request of the identifiers `batch`: a tame
\* remote lists every requested entity in request order; a wild one may
\* list them in another order, leave one out, or send no data at all.
\* <<"null", <<>> >> stands for a response without data.
BatchPayloads(r, t, batch) ==
    LET all == [j \in 1..Len(batch) |-> Entity(t, batch[j])]
    IN  IF r.wild
        THEN {<<"data", all>>, <<"data", Reverse(all)>>, <<"data", Tail0(all)>>,
              <<"null", <<>> >>}
        ELSE {<<"data", all>>}

(***************************************************************************)
(* fetchAllActivitiesByFilter / fetchAllDealsByFilter.                     *)
(***************************************************************************)
IdleFetch ==
    [pc |-> "idle", filterId |-> 0, limit |-> 0, acc |-> <<>>, cursor |-> NoCursor,
     calls |-> <<>>, resps |-> <<>>, received |-> <<>>, result |-> <<>>]

\* Variant of BatchLimit without the page-size cap.
BatchLimitUncapped(limit, len) == limit - len

\* const batchLimit = Math.min(100, limit - activities.length)
BatchLimit(limit, len) == Min(MaxPageSize, limit - len)

\* Variant of Slice0 that does not truncate.
Slice0Whole(s, limit) == s

\* Array.prototype.slice(0, limit) for limit >= 0.
Slice0(s, limit) == SubSeq(s, 1, Min(limit, Len(s)))

\* if (response.data && response.data.length > 0) activities.push(...response.data)
\* Variant of PushAll that accumulates nothing.
PushAllNone(acc, data) == acc

PushAll(acc, data) == IF Len(data) > 0 THEN acc \o data ELSE acc

\* Variant of LoopBreaks that ignores a missing cursor.
LoopBreaksOnLimitOnly(nextCursor, len, limit) == len >= limit

\* if (!nextCursor || activities.length >= limit) break
LoopBreaks(nextCursor, len, limit) == ~Truthy(nextCursor) \/ len >= limit

\* params of client.getActivitiesByFilter(filterId, batchLimit, cursor):
\* `if (cursor) params.cursor = cursor`.
PageCall(filterId, batchLimit, cursor) ==
    [filter_id |-> filterId, limit |-> batchLimit,
     cursor |-> IF Truthy(cursor) THEN cursor ELSE NoCursor]

\* return activities.slice(0, limit)
FetchReturn(f) == [f EXCEPT !.pc = "returned", !.result = Slice0(f.acc, f.limit)]

\* Variant of LoopHead that requests a page whatever has been accumulated.
LoopHeadUnguarded(f) ==
    [f EXCEPT !.pc = "await",
              !.calls = Append(@, PageCall(f.filterId, BatchLimit(f.limit, Len(f.acc)),
                                           f.cursor))]

\* The head of the while loop: either the next page request is issued and
\* the function waits for it, or the loop is left and the function returns.
LoopHead(f) ==
    IF Len(f.acc) < f.limit
    THEN [f EXCEPT !.pc = "await",
                   !.calls = Append(@, PageCall(f.filterId,
                                                BatchLimit(f.limit, Len(f.acc)),
                                                f.cursor))]
    ELSE FetchReturn(f)

\* The function's entry up to its first await.
FetchEntry(filterId, limit) ==
    LoopHead([IdleFetch EXCEPT !.filterId = filterId, !.limit = limit])

\* Variant of NextCursor that never advances the cursor.
NextCursorStale(r) == NoCursor

\* The cursor the next iteration uses: `cursor = nextCursor`.
NextCursor(r) == r.next

\* The loop body after the awaited response `r` arrived.
FetchOnResponse(f, r) ==
    LET acc2 == PushAll(f.acc, r.data)
        g    == [f EXCEPT !.acc = acc2,
                          !.resps = Append(@, [n |-> Len(r.data), next |-> r.next]),
                          !.received = @ \o r.data]
    IN  IF LoopBreaks(r.next, Len(acc2), f.limit)
        THEN FetchReturn(g)
        ELSE LoopHead([g EXCEPT !.cursor = NextCursor(r)])

\* The awaited request rejected: the function throws.
FetchOnFailure(f) == [f EXCEPT !.pc = "failed"]

LastCall(f) == f.calls[Len(f.calls)]

(***************************************************************************)
(* getPersonsBulk / getOrganizationsBulk / getDealsBulk.                   *)
(***************************************************************************)
EmptyMap == [k \in {} |-> 0]

IdleBulk ==
    [pc |-> "idle", ids |-> <<>>, i |-> 0, map |-> EmptyMap,
     batches |-> <<>>, outcomes |-> <<>>, errors |-> 0]

\* Variant of Batch whose batches overlap by one identifier.
BatchOverlapping(ids, i) == SubSeq(ids, i + 1, Min(i + BulkBatchSize + 1, Len(ids)))

\* const batch = personIds.slice(i, i + 100)
Batch(ids, i) == SubSeq(ids, i + 1, Min(i + BulkBatchSize, Len(ids)))

\* for (const person of response.data.data) personsMap.set(person.id, person)
MapSetAll(map, data) ==
    [k \in DOMAIN map \cup {data[j].id : j \in DOMAIN data} |->
        LET js == {j \in DOMAIN data : data[j].id = k}
        IN  IF js = {} THEN map[k]
            ELSE data[CHOOSE j \in js : \A h \in js : h <= j]]

\* The head of the for loop: the next batch is requested (the identifiers
\* joined into the `ids` parameter), or the map is returned.
BulkLoopHead(b) ==
    IF b.i < Len(b.ids)
    THEN [b EXCEPT !.pc = "await", !.batches = Append(@, Batch(b.ids, b.i))]
    ELSE [b EXCEPT !.pc = "returned"]

\* Variant of BulkEntry that requests the first batch without looking at
\* the number of identifiers.
BulkEntryNoGuard(ids) ==
    [IdleBulk EXCEPT !.ids = ids, !.pc = "await", !.batches = <<Batch(ids, 0)>>]

\* The function's entry up to its first await:
\* `if (personIds.length === 0) return personsMap`, then the loop.
BulkEntry(ids) ==
    IF Len(ids) = 0
    THEN [IdleBulk EXCEPT !.pc = "returned"]
    ELSE BulkLoopHead([IdleBulk EXCEPT !.ids = ids])

\* The try block after the awaited response arrived, then `i += 100`.
BulkOnResponse(b, payload) ==
    LET m2 == IF payload[1] = "data" THEN MapSetAll(b.map, payload[2]) ELSE b.map
    IN  BulkLoopHead([b EXCEPT !.map = m2, !.i = @ + BulkBatchSize,
                               !.outcomes = Append(@, payload)])

\* Variant of BulkOnFailure without the try/catch: the rejection propagates.
BulkOnFailureThrows(b) ==
    [b EXCEPT !.pc = "failed", !.outcomes = Append(@, <<"failed", <<>> >>)]

\* The catch block (console.error), then `i += 100`.
BulkOnFailure(b) ==
    BulkLoopHead([b EXCEPT !.errors = @ + 1, !.i = @ + BulkBatchSize,
                           !.outcomes = Append(@, <<"failed", <<>> >>)])

LastBatch(b) == b.batches[Len(b.batches)]

(***************************************************************************)
(* Cache (./cache.js): get and set with a time to live.                    *)
(***************************************************************************)
\* cache.get(key): the stored value while now < expiresAt, else absent.
CacheGet(c, key, now) ==
    IF key \in DOMAIN c /\ now < c[key].expiresAt THEN <<c[key].value>> ELSE <<>>

\* cache.set(key, value, ttlSeconds)
CacheSet(c, key, value, ttl, now) ==
    [k \in DOMAIN c \cup {key} |->
        IF k = key THEN [value |-> value, expiresAt |-> now + ttl] ELSE c[k]]

(***************************************************************************)
(* loadStages.                                                             *)
(***************************************************************************)
\* for (const stage of stages) stagesMap.set(stage.id, stage.name)
StagesMapOf(stages) ==
    [k \in {stages[j].id : j \in DOMAIN stages} |->
        LET js == {j \in DOMAIN stages : stages[j].id = k}
        IN  stages[CHOOSE j \in js : \A h \in js : h <= j].name]

\* let stages = this.cache.get<Stage[]>('stages_all')
CachedStages(c, now) == CacheGet(c, "stages_all", now)

\* Variant of StagesMissing that never trusts the cache.
StagesMissingAlways(stages) == TRUE

\* if (!stages)
StagesMissing(stages) == stages = <<>>

\* Variant of StoreStages that keeps an entry the cache already holds.
StoreStagesIfAbsent(c, stages, now) ==
    IF CacheGet(c, "stages_all", now) # <<>> THEN c
    ELSE CacheSet(c, "stages_all", stages, CacheTTL, now)

\* this.cache.set(cacheKey, stages, this.cacheTTL)
StoreStages(c, stages, now) == CacheSet(c, "stages_all", stages, CacheTTL, now)

\* An entry of the history of loadStages calls.
Event(type, b, now, value) == [type |-> type, build |-> b, at |-> now, value |-> value]

\* The loadStages calls started in a history.
Starts(log) == Len(SelectSeq(log, LAMBDA e : e.type \in {"call", "hit"}))

(***************************************************************************)
(* enrichActivity / enrichDeal.                                            *)
(***************************************************************************)
\* Map.prototype.get
MapGet(m, k) == IF k \in DOMAIN m THEN <<m[k]>> ELSE <<>>

\* personData?.email?.find(e => e.primary)?.value || personData?.email?.[0]?.value
PrimaryEmail(personData) ==
    IF personData = <<>> THEN <<>>
    ELSE LET em   == personData[1].email
             prim == {j \in DOMAIN em : em[j].primary}
             p    == IF prim = {} THEN <<>>
                     ELSE em[CHOOSE j \in prim : \A h \in prim : j <= h].value
         IN  IF p # <<>> THEN <<p>>
             ELSE IF em # <<>> /\ em[1].value # <<>> THEN <<em[1].value>>
             ELSE <<>>

\* Variant of StageName without the placeholder.
StageNameOrEmpty(stagesMap, stageId) ==
    IF stageId \in DOMAIN stagesMap THEN stagesMap[stageId] ELSE <<>>

\* stagesMap.get(stageId) || `Stage ${stageId}`
StageName(stagesMap, stageId) ==
    IF stageId \in DOMAIN stagesMap /\ stagesMap[stageId] # <<>>
    THEN stagesMap[stageId]
    ELSE <<"Stage", stageId>>

(***************************************************************************)
(* date-fns: parseISO, startOfDay, isBefore, differenceInDays.             *)
(***************************************************************************)
\* parseISO of a date without a time: midnight of that day.
ParseISO(due_date) == [day |-> due_date, tod |-> 0]

\* Variant of StartOfDay that keeps the time of day.
StartOfDayKeep(t) == t

\* startOfDay
StartOfDay(t) == [t EXCEPT !.tod = 0]

\* isBefore
IsBefore(a, b) == a.day < b.day \/ (a.day = b.day /\ a.tod < b.tod)

\* compareLocalAsc: the sign of left - right.
CompareLocalAsc(l, r) == IF IsBefore(l, r) THEN -1 ELSE IF IsBefore(r, l) THEN 1 ELSE 0

Abs(n) == IF n < 0 THEN -n ELSE n

\* differenceInDays: the number of full days between two dates, computed
\* from the calendar-day difference less the last day when it is not full.
DifferenceInDays(l, r) ==
    LET sign       == CompareLocalAsc(l, r)
        difference == Abs(l.day - r.day)
        shifted    == [l EXCEPT !.day = @ - sign * difference]
        notFull    == IF CompareLocalAsc(shifted, r) = -sign THEN 1 ELSE 0
    IN  sign * (difference - notFull)

\* daysOverdue
DaysOverdue(due_date, now) ==
    LET dueDate       == StartOfDay(ParseISO(due_date))
        nowStartOfDay == StartOfDay(now)
    IN  IF IsBefore(dueDate, nowStartOfDay)
        THEN <<DifferenceInDays(nowStartOfDay, dueDate)>>
        ELSE <<>>

\* enrichActivity, without subject, type and url.
EnrichActivity(a, stagesMap, dealsMap, personsMap, orgsMap, now) ==
    [activity_id |-> a.id,
     due_date |-> a.due_date,
     days_overdue |-> DaysOverdue(a.due_date, now),
     deal |->
        IF a.deal_id # 0
        THEN LET dealData == MapGet(dealsMap, a.deal_id)
                 stageId  == IF dealData # <<>> THEN dealData[1].stage_id ELSE 0
             IN  <<[deal_id    |-> a.deal_id,
                    title      |-> Or(a.deal_title,
                                      IF dealData # <<>> THEN dealData[1].title ELSE <<>>),
                    stage_id   |-> stageId,
                    stage_name |-> IF stageId # 0 THEN StageName(stagesMap, stageId)
                                   ELSE <<>>]>>
        ELSE <<>>,
     person |->
        IF a.person_id # 0
        THEN <<[id    |-> a.person_id,
                name  |-> Or(a.person_name, <<"Unknown">>),
                email |-> PrimaryEmail(MapGet(personsMap, a.person_id))]>>
        ELSE <<>>,
     org |->
        IF a.org_id # 0
        THEN LET orgData == MapGet(orgsMap, a.org_id)
             IN  <<[id   |-> a.org_id,
                    name |-> Or(a.org_name,
                                Or(IF orgData # <<>> THEN orgData[1].name ELSE <<>>,
                                   <<"Unknown">>))]>>
        ELSE <<>>]

\* enrichDeal, without url.
EnrichDeal(d, stagesMap, personsMap, orgsMap) ==
    [deal_id    |-> d.id,
     title      |-> d.title,
     stage_id   |-> d.stage_id,
     stage_name |-> StageName(stagesMap, d.stage_id),
     owner_id   |-> d.owner_id,
     undone_activities_count |-> d.undone_activities_count,
     next_activity_id        |-> OrJS(d.next_activity_id, Null),
     last_outgoing_mail_time |-> OrJS(d.last_outgoing_mail_time, Null),
     last_incoming_mail_time |-> OrJS(d.last_incoming_mail_time, Null),
     person |->
        IF d.person_id # 0
        THEN LET personData == MapGet(personsMap, d.person_id)
             IN  <<[id   |-> d.person_id,
                    name |-> Or(d.person_name,
                                Or(IF personData # <<>> THEN personData[1].name ELSE <<>>,
                                   <<"Unknown">>))]>>
        ELSE <<>>,
     org |->
        IF d.org_id # 0
        THEN LET orgData == MapGet(orgsMap, d.org_id)
             IN  <<[id   |-> d.org_id,
                    name |-> Or(d.org_name,
                                Or(IF orgData # <<>> THEN orgData[1].name ELSE <<>>,
                                   <<"Unknown">>))]>>
        ELSE <<>>]

(***************************************************************************)
(* getSalesQueueDigest.                                                    *)
(***************************************************************************)
IdleDigest ==
    [pc |-> "idle", filters |-> [s \in Streams |-> 0], limits |-> [s \in Streams |-> 0],
     include |-> TRUE, now |-> [day |-> 1, tod |-> 0], stagesMap |-> EmptyMap,
     callsAtFailure |-> [s \in Streams |-> 0], out |-> <<>>]

\* Variant of Fetched that hands the records over in reverse order.
FetchedReversed(f, s) ==
    [j \in 1..Len(f[s].result) |->
        IF s = "missing" THEN Deal(f[s].result[Len(f[s].result) + 1 - j])
        ELSE Activity(s, f[s].result[Len(f[s].result) + 1 - j])]

\* The records a returned fetch hands to the digest build.
Fetched(f, s) ==
    [j \in 1..Len(f[s].result) |->
        IF s = "missing" THEN Deal(f[s].result[j]) ELSE Activity(s, f[s].result[j])]

\* Variant of UniqueTruthy that collects into an array instead of a Set.
AllTruthy(s) == SelectSeq(s, LAMBDA x : x # 0)

\* `if (id) set.add(id)` for every element, then Array.from(set): the
\* truthy values in the order of their first occurrence.
UniqueTruthy(s) ==
    LET first == SelectSeq([j \in 1..Len(s) |-> j],
                           LAMBDA j : s[j] # 0 /\ \A h \in 1..(j - 1) : s[h] # s[j])
    IN  [k \in 1..Len(first) |-> s[first[k]]]

\* The identifiers of entity type t the fetched records reference, in the
\* order the two collection loops meet them.
Referenced(f, t) ==
    LET acts  == Fetched(f, "overdue") \o Fetched(f, "today")
        deals == Fetched(f, "missing")
    IN  IF t = "person"
        THEN [j \in 1..Len(acts) |-> acts[j].person_id]
                 \o [j \in 1..Len(deals) |-> deals[j].person_id]
        ELSE IF t = "organization"
        THEN [j \in 1..Len(acts) |-> acts[j].org_id]
                 \o [j \in 1..Len(deals) |-> deals[j].org_id]
        ELSE [j \in 1..Len(acts) |-> acts[j].deal_id]

\* Array.from(personIds) / Array.from(orgIds) / Array.from(dealIds)
CollectIds(f, t) == UniqueTruthy(Referenced(f, t))

\* The digest returned: the three sections, their counts, the filter ids.
Assemble(d, f, maps) ==
    LET overdueItems ==
            [j \in 1..Len(f["overdue"].result) |->
                EnrichActivity(Fetched(f, "overdue")[j], d.stagesMap,
                               maps["deal"], maps["person"], maps["organization"], d.now)]
        todayItems ==
            [j \in 1..Len(f["today"].result) |->
                EnrichActivity(Fetched(f, "today")[j], d.stagesMap,
                               maps["deal"], maps["person"], maps["organization"], d.now)]
        missingActionItems ==
            [j \in 1..Len(f["missing"].result) |->
                EnrichDeal(Fetched(f, "missing")[j], d.stagesMap,
                           maps["person"], maps["organization"])]
    IN  [sections |-> [overdue |-> overdueItems,
                       due_today |-> todayItems,
                       missing_next_action |-> missingActionItems],
         stats |-> [overdue_count |-> Len(overdueItems),
                    due_today_count |-> Len(todayItems),
                    missing_next_action_count |-> Len(missingActionItems)],
         filter_ids |-> [overdue_activities_filter_id |-> d.filters["overdue"],
                         today_activities_filter_id |-> d.filters["today"],
                         missing_next_action_deals_filter_id |-> d.filters["missing"]]]

\* The enrichment and the return statement.
Finish(d, f, maps) ==
    [d EXCEPT !.pc = "returned", !.out = <<Assemble(d, f, maps)>>]

\* Variant of JoinBulk that fails the build when a batch error was logged.
JoinBulkStrict(d, f, b) ==
    IF d.pc # "bulk" THEN [dg |-> d, bulk |-> b]
    ELSE IF \E t \in EntityTypes : b[t].pc = "failed" \/ b[t].errors > 0
    THEN [dg |-> [d EXCEPT !.pc = "failed"], bulk |-> b]
    ELSE IF \A t \in EntityTypes : b[t].pc = "returned"
    THEN [dg |-> Finish(d, f, [t \in EntityTypes |-> b[t].map]), bulk |-> b]
    ELSE [dg |-> d, bulk |-> b]

\* await Promise.all of the three bulk fetches, and what follows it: the
\* build goes on once all three have returned, and fails when one rejects.
JoinBulk(d, f, b) ==
    IF d.pc # "bulk" THEN [dg |-> d, bulk |-> b]
    ELSE IF \E t \in EntityTypes : b[t].pc = "failed"
    THEN [dg |-> [d EXCEPT !.pc = "failed"], bulk |-> b]
    ELSE IF \A t \in EntityTypes : b[t].pc = "returned"
    THEN [dg |-> Finish(d, f, [t \in EntityTypes |-> b[t].map]), bulk |-> b]
    ELSE [dg |-> d, bulk |-> b]

\* Variant of AfterPrimary that runs the bulk fetches whatever the flag.
AfterPrimaryAlways(d, f, b) ==
    JoinBulk([d EXCEPT !.pc = "bulk"], f,
             [t \in EntityTypes |-> BulkEntry(CollectIds(f, t))])

\* The code after the primary fetches: with includePeopleOrgs the three bulk
\* fetches are started on the collected identifiers, each up to its first
\* await; without it the maps stay empty.
AfterPrimary(d, f, b) ==
    IF d.include
    THEN JoinBulk([d EXCEPT !.pc = "bulk"], f,
                  [t \in EntityTypes |-> BulkEntry(CollectIds(f, t))])
    ELSE [dg |-> Finish(d, f, [t \in EntityTypes |-> EmptyMap]), bulk |-> b]

\* Variant of JoinPrimary that goes on as soon as one fetch has returned.
JoinPrimaryAny(d, f, b) ==
    IF d.pc # "primary" THEN [dg |-> d, bulk |-> b]
    ELSE IF \E s \in Streams : f[s].pc = "failed"
    THEN [dg |-> [d EXCEPT !.pc = "failed",
                           !.callsAtFailure = [s \in Streams |-> Len(f[s].calls)]],
          bulk |-> b]
    ELSE IF \E s \in Streams : f[s].pc = "returned"
    THEN AfterPrimary(d, f, b)
    ELSE [dg |-> d, bulk |-> b]

\* Variant of JoinPrimary that waits for all three fetches whatever their
\* outcome and goes on with what they accumulated.
JoinPrimarySettled(d, f, b) ==
    IF d.pc # "primary" THEN [dg |-> d, bulk |-> b]
    ELSE IF \A s \in Streams : f[s].pc \in {"returned", "failed"}
    THEN AfterPrimary(d, f, b)
    ELSE [dg |-> d, bulk |-> b]

\* await Promise.all of the three primary fetches, and what follows it: the
\* build fails as soon as one fetch rejects, and goes on once all three
\* have returned.
JoinPrimary(d, f, b) ==
    IF d.pc # "primary" THEN [dg |-> d, bulk |-> b]
    ELSE IF \E s \in Streams : f[s].pc = "failed"
    THEN [dg |-> [d EXCEPT !.pc = "failed",
                           !.callsAtFailure = [s \in Streams |-> Len(f[s].calls)]],
          bulk |-> b]
    ELSE IF \A s \in Streams : f[s].pc = "returned"
    THEN AfterPrimary(d, f, b)
    ELSE [dg |-> d, bulk |-> b]

\* The three primary fetches are called in turn, each up to its first await.
StartPrimary(d) ==
    [s \in Streams |-> FetchEntry(d.filters[s], d.limits[s])]

(***************************************************************************)
(* Actions.                                                                *)
(***************************************************************************)
\* A caller invokes fetchAll...ByFilter on stream s.
FetchStart(s) ==
    /\ fetch[s].pc = "ready"
    /\ fetch' = [fetch EXCEPT ![s] = FetchEntry(fetch[s].filterId, fetch[s].limit)]
    /\ UNCHANGED <<upstream, bulkVars, digestVars, en, ld, cf, fb, vp, ge, tl>>

\* Variant of PageResponse in which a failed build cancels the page loops.
PageResponseUnlessFailed(s) ==
    /\ fetch[s].pc = "await"
    /\ dg.pc # "failed"
    /\ Len(fetch[s].calls) <= MaxCalls
    /\ \E r \in PageResponses(upstream[s], LastCall(fetch[s])) :
          LET f2 == [fetch EXCEPT ![s] = FetchOnResponse(fetch[s], r)]
              j  == JoinPrimary(dg, f2, bulk)
          IN  fetch' = f2 /\ dg' = j.dg /\ bulk' = j.bulk
    /\ UNCHANGED <<upstream, registry, cache, clock, en, ld, cf, fb, vp, ge, tl>>

\* The page request in flight on stream s is answered.
PageResponse(s) ==
    /\ fetch[s].pc = "await"
    /\ Len(fetch[s].calls) <= MaxCalls
    /\ \E r \in PageResponses(upstream[s], LastCall(fetch[s])) :
          LET f2 == [fetch EXCEPT ![s] = FetchOnResponse(fetch[s], r)]
              j  == JoinPrimary(dg, f2, bulk)
          IN  fetch' = f2 /\ dg' = j.dg /\ bulk' = j.bulk
    /\ UNCHANGED <<upstream, registry, cache, clock, en, ld, cf, fb, vp, ge, tl>>

\* The page request in flight on stream s fails.
PageFailure(s) ==
    /\ fetch[s].pc = "await"
    /\ LET f2 == [fetch EXCEPT ![s] = FetchOnFailure(fetch[s])]
           j  == JoinPrimary(dg, f2, bulk)
       IN  fetch' = f2 /\ dg' = j.dg /\ bulk' = j.bulk
    /\ UNCHANGED <<upstream, registry, cache, clock, en, ld, cf, fb, vp, ge, tl>>

\* A caller invokes get...Bulk for entity type t.
BulkStart(t) ==
    /\ bulk[t].pc = "ready"
    /\ bulk' = [bulk EXCEPT ![t] = BulkEntry(bulk[t].ids)]
    /\ UNCHANGED <<registry, pagedVars, digestVars, en, ld, cf, fb, vp, ge, tl>>

\* The batch request in flight for entity type t is answered.
BatchResponse(t) ==
    /\ bulk[t].pc = "await"
    /\ \E payload \in BatchPayloads(registry[t], t, LastBatch(bulk[t])) :
          LET b2 == [bulk EXCEPT ![t] = BulkOnResponse(bulk[t], payload)]
              j  == JoinBulk(dg, fetch, b2)
          IN  bulk' = j.bulk /\ dg' = j.dg
    /\ UNCHANGED <<registry, pagedVars, cache, clock, en, ld, cf, fb, vp, ge, tl>>

\* The batch request in flight for entity type t fails.
BatchFailure(t) ==
    /\ bulk[t].pc = "await"
    /\ LET b2 == [bulk EXCEPT ![t] = BulkOnFailure(bulk[t])]
           j  == JoinBulk(dg, fetch, b2)
       IN  bulk' = j.bulk /\ dg' = j.dg
    /\ UNCHANGED <<registry, pagedVars, cache, clock, en, ld, cf, fb, vp, ge, tl>>

\* A caller invokes getSalesQueueDigest: loadStages reads the cache and
\* either requests the stage list or, on a hit, the build goes on to the
\* primary fetches.
DigestStart ==
    /\ dg.pc = "ready"
    /\ LET stages == CacheGet(cache, "stages_all", clock)
       IN  IF stages = <<>>
           THEN /\ dg' = [dg EXCEPT !.pc = "stages"]
                /\ UNCHANGED <<fetch, bulk>>
           ELSE LET d2 == [dg EXCEPT !.pc = "primary",
                                     !.stagesMap = StagesMapOf(stages[1])]
                    f2 == StartPrimary(d2)
                    j  == JoinPrimary(d2, f2, bulk)
                IN  fetch' = f2 /\ dg' = j.dg /\ bulk' = j.bulk
    /\ UNCHANGED <<upstream, registry, cache, clock, en, ld, cf, fb, vp, ge, tl>>

\* getAllStages is answered: the list is cached and the build goes on to
\* the primary fetches.
StagesResponse ==
    /\ dg.pc = "stages"
    /\ cache' = CacheSet(cache, "stages_all", StageList, CacheTTL, clock)
    /\ LET d2 == [dg EXCEPT !.pc = "primary", !.stagesMap = StagesMapOf(StageList)]
           f2 == StartPrimary(d2)
           j  == JoinPrimary(d2, f2, bulk)
       IN  fetch' = f2 /\ dg' = j.dg /\ bulk' = j.bulk
    /\ UNCHANGED <<upstream, registry, clock, en, ld, cf, fb, vp, ge, tl>>

\* getAllStages fails: loadStages throws and the build fails.
StagesFailure ==
    /\ dg.pc = "stages"
    /\ dg' = [dg EXCEPT !.pc = "failed"]
    /\ UNCHANGED <<pagedVars, bulkVars, cache, clock, en, ld, cf, fb, vp, ge, tl>>

\* enrichActivity is called on the normalized activity.
EnrichActivityCall ==
    /\ en.pc = "ready"
    /\ en.kind = "activity"
    /\ en' = [en EXCEPT !.pc = "done",
                        !.out = <<EnrichActivity(NormalizeActivity(en.raw),
                                                 StagesMapOf(StageList), en.deals,
                                                 en.persons, en.orgs, en.now)>>]
    /\ UNCHANGED <<pagedVars, bulkVars, digestVars, ld, cf, fb, vp, ge, tl>>

\* enrichDeal is called on the normalized deal.
EnrichDealCall ==
    /\ en.pc = "ready"
    /\ en.kind = "deal"
    /\ en' = [en EXCEPT !.pc = "done",
                        !.out = <<EnrichDeal(NormalizeDeal(en.raw), StagesMapOf(StageList),
                                             en.persons, en.orgs)>>]
    /\ UNCHANGED <<pagedVars, bulkVars, digestVars, ld, cf, fb, vp, ge, tl>>

\* Build b calls loadStages: on a cached list it returns the table, else it
\* requests the stage list.
LoadStagesStart(b) ==
    /\ ld.load[b].pc \in {"idle", "done", "failed"}
    /\ Starts(ld.log) < MaxStarts
    /\ LET stages == CachedStages(cache, clock)
       IN  IF StagesMissing(stages)
           THEN ld' = [ld EXCEPT !.load[b] = [pc |-> "stages", stagesMap |-> EmptyMap],
                                 !.log = Append(@, Event("call", b, clock, <<>>))]
           ELSE ld' = [ld EXCEPT !.load[b] = [pc |-> "done",
                                              stagesMap |-> StagesMapOf(stages[1])],
                                 !.log = Append(@, Event("hit", b, clock, stages[1]))]
    /\ UNCHANGED <<pagedVars, bulkVars, dg, cache, clock, en, cf, fb, vp, ge, tl>>

\* getAllStages answers build b: the list is cached and the table returned.
LoadStagesResponse(b) ==
    /\ ld.load[b].pc = "stages"
    /\ \E stages \in StageLists :
          /\ cache' = StoreStages(cache, stages, clock)
          /\ ld' = [ld EXCEPT !.load[b] = [pc |-> "done", stagesMap |-> StagesMapOf(stages)],
                              !.log = Append(@, Event("store", b, clock, stages))]
    /\ UNCHANGED <<pagedVars, bulkVars, dg, clock, en, cf, fb, vp, ge, tl>>

\* getAllStages fails for build b: loadStages throws.
LoadStagesFailure(b) ==
    /\ ld.load[b].pc = "stages"
    /\ ld' = [ld EXCEPT !.load[b] = [pc |-> "failed", stagesMap |-> EmptyMap],
                        !.log = Append(@, Event("fail", b, clock, <<>>))]
    /\ UNCHANGED <<pagedVars, bulkVars, dg, cache, clock, en, cf, fb, vp, ge, tl>>

\* Time passes: a second, or a second less than the time to live.
Tick ==
    /\ ld.ticks < MaxTicks
    /\ \E d \in {1, CacheTTL - 1} : clock' = clock + d
    /\ ld' = [ld EXCEPT !.ticks = @ + 1]
    /\ UNCHANGED <<pagedVars, bulkVars, dg, cache, en, cf, fb, vp, ge, tl>>

(***************************************************************************)
(* Filter creation (PipedriveClient.createFilter).  Text is a TLA+ string. *)
(* A property of a condition node is Undefined, Null, <<"num", n>>,        *)
(* <<"text", s>> or <<"arr", children>>; a node is the record of its       *)
(* properties.  A field of the remote's metadata is [id, key, name], key   *)
(* and name being Undefined or <<"text", s>>.                              *)
(***************************************************************************)
Text(s) == <<"text", s>>

Num(n) == <<"num", n>>

Arr(children) == <<"arr", children>>

IsText(v) == v[1] = "text"

\* An object literal with the given properties.
Node(object, field_id, operator, value, extra_value, glue, conditions) ==
    [object |-> object, field_id |-> field_id, operator |-> operator, value |-> value,
     extra_value |-> extra_value, glue |-> glue, conditions |-> conditions]

\* { glue, conditions }
GroupOf(glue, children) ==
    Node(Undefined, Undefined, Undefined, Undefined, Undefined, Text(glue), Arr(children))

\* String.prototype.trim, on the spellings that occur.
Trim(s) == IF s = " Deal " THEN "Deal" ELSE s

\* String.prototype.toLowerCase, on the spellings that occur.
ToLowerCase(s) ==
    CASE s \in {"AND", "And"} -> "and"
      [] s \in {"OR", "Or"} -> "or"
      [] s \in {"XOR", "Xor"} -> "xor"
      [] s \in {"Overdue", "OVERDUE"} -> "overdue"
      [] s \in {"Today", "TODAY"} -> "today"
      [] s \in {"Stalled", "STALLED"} -> "stalled"
      [] s \in {"Title", "TITLE", "tItLe"} -> "title"
      [] s \in {"Owner", "OWNER"} -> "owner"
      [] s \in {"Ghost", "GHOST"} -> "ghost"
      [] s \in {"Deal", "DEAL"} -> "deal"
      [] s = "Deals" -> "deals"
      [] s = "People" -> "people"
      [] s = "Widget" -> "widget"
      [] s = " Deal " -> " deal "
      [] OTHER -> s

\* /^\d+$/.test(s)
IsDigits(s) == \E n \in 0..MaxNumeral : s = ToString(n)

\* Variant of Nullish that keeps a.
NullishKeep(a, b) == a

\* a ?? b
Nullish(a, b) == IF a[1] \in {"undefined", "null"} THEN b ELSE a

NormalizeFilterObjectType(value) ==
    LET normalized == ToLowerCase(Trim(value))
    IN  CASE normalized \in {"deals", "deal"} -> "deal"
          [] normalized \in {"activities", "activity"} -> "activity"
          [] normalized \in {"people", "person"} -> "person"
          [] normalized \in {"org", "organization", "organizations"} -> "organization"
          [] normalized \in {"products", "product"} -> "product"
          [] normalized \in {"projects", "project"} -> "project"
          [] normalized \in {"leads", "lead"} -> "lead"
          [] OTHER -> normalized

\* The endpoint, or <<>> for null.
GetFieldEndpointForObjectType(objectType) ==
    CASE objectType = "activity" -> <<"/activityFields">>
      [] objectType = "deal" -> <<"/dealFields">>
      [] objectType = "person" -> <<"/personFields">>
      [] objectType = "organization" -> <<"/organizationFields">>
      [] objectType = "product" -> <<"/productFields">>
      [] objectType = "project" -> <<"/projectFields">>
      [] OTHER -> <<>>

\* Map.prototype.set
MapSet(m, k, v) == [x \in DOMAIN m \cup {k} |-> IF x = k THEN v ELSE m[x]]

\* The body of the loop over the fields: the entries one field sets.
SetField(m, field) ==
    LET id == ToString(field.id)
        m1 == MapSet(m, id, id)
        m2 == IF IsText(field.key) /\ field.key[2] # ""
              THEN MapSet(MapSet(m1, field.key[2], id), ToLowerCase(field.key[2]), id)
              ELSE m1
    IN  IF IsText(field.name) /\ field.name[2] # ""
        THEN MapSet(MapSet(m2, field.name[2], id), ToLowerCase(field.name[2]), id)
        ELSE m2

RECURSIVE SetFields(_, _, _)
SetFields(m, fields, j) ==
    IF j > Len(fields) THEN m ELSE SetFields(SetField(m, fields[j]), fields, j + 1)

\* The field map getFieldMapForObjectType builds from a listing.
FieldMapOf(fields) == SetFields(EmptyMap, fields, 1)

\* Variant of MappedFieldId that falls back to the given spelling.
MappedFieldIdOrGiven(fieldMap, rawFieldId) ==
    Or(Or(MapGet(fieldMap, rawFieldId), MapGet(fieldMap, ToLowerCase(rawFieldId))),
       <<rawFieldId>>)

\* Variant of MappedFieldId that looks up the given spelling only.
MappedFieldIdExact(fieldMap, rawFieldId) == MapGet(fieldMap, rawFieldId)

\* fieldMap.get(rawFieldId) || fieldMap.get(rawFieldId.toLowerCase()); <<>> when
\* neither is there.
MappedFieldId(fieldMap, rawFieldId) ==
    Or(MapGet(fieldMap, rawFieldId), MapGet(fieldMap, ToLowerCase(rawFieldId)))

IsFilterConditionLeaf(candidate) ==
    /\ IsText(candidate.object)
    /\ candidate.field_id[1] \in {"text", "num"}
    /\ IsText(candidate.operator)

IsFilterConditionGroup(candidate) ==
    /\ IsText(candidate.glue)
    /\ candidate.conditions[1] = "arr"

\* Variant of FirstGroup that finds the last group with the glue.
LastGroup(groups, glue) ==
    LET js == {j \in DOMAIN groups : groups[j].glue = Text(glue)}
    IN  IF js = {} THEN GroupOf(glue, <<>>)
        ELSE groups[CHOOSE j \in js : \A h \in js : j >= h]

FirstGroup(groups, glue) ==
    LET js == {j \in DOMAIN groups : groups[j].glue = Text(glue)}
    IN  IF js = {} THEN GroupOf(glue, <<>>)
        ELSE groups[CHOOSE j \in js : \A h \in js : j <= h]

\* Variant of NormalizeFilterRootGroupStructure that wraps the children of
\* every root.
NormalizeFilterRootGroupStructureWrap(conditions) ==
    LET rootGlue == IF IsText(conditions.glue) THEN ToLowerCase(conditions.glue[2])
                    ELSE "and"
        rawConditions == IF conditions.conditions[1] = "arr" THEN conditions.conditions[2]
                         ELSE <<>>
    IN  GroupOf(rootGlue, <<GroupOf("and", rawConditions), GroupOf("or", <<>>)>>)

NormalizeFilterRootGroupStructure(conditions) ==
    LET rootGlue == IF IsText(conditions.glue) THEN ToLowerCase(conditions.glue[2])
                    ELSE "and"
        rawConditions == IF conditions.conditions[1] = "arr" THEN conditions.conditions[2]
                         ELSE <<>>
        picked == SelectSeq(rawConditions, IsFilterConditionGroup)
        groups == [j \in DOMAIN picked |->
                     GroupOf(ToLowerCase(picked[j].glue[2]), picked[j].conditions[2])]
    IN  IF \A j \in DOMAIN rawConditions : IsFilterConditionLeaf(rawConditions[j])
        THEN GroupOf(rootGlue, <<GroupOf("and", rawConditions), GroupOf("or", <<>>)>>)
        ELSE GroupOf(rootGlue, <<FirstGroup(groups, "and"), FirstGroup(groups, "or")>>)

\* Variant of IsSymbolic that looks every string up.
IsSymbolicAnyString(rawFieldId) == IsText(rawFieldId)

\* typeof rawFieldId === 'string' && !/^\d+$/.test(rawFieldId)
IsSymbolic(rawFieldId) == IsText(rawFieldId) /\ ~IsDigits(rawFieldId[2])

\* condition.object || defaultObjectType, canonical
LeafObjectType(condition, defaultObjectType) ==
    NormalizeFilterObjectType(
        IF IsText(condition.object) /\ condition.object[2] # "" THEN condition.object[2]
        ELSE defaultObjectType)

\* The leaf normalizeFilterConditionLeaf returns.
NormalizedLeaf(condition, objectType, normalizedFieldId) ==
    [condition EXCEPT !.object = Text(objectType),
                      !.field_id = normalizedFieldId,
                      !.extra_value = Nullish(@, Null)]

\* The leaves normalizeFilterConditionsRecursive visits below a node, in the
\* order it awaits them.
RECURSIVE Visited(_), VisitedFrom(_, _)
Visited(node) ==
    IF IsFilterConditionLeaf(node) THEN <<node>>
    ELSE IF IsFilterConditionGroup(node) THEN VisitedFrom(node.conditions[2], 1)
    ELSE <<>>

VisitedFrom(children, j) ==
    IF j > Len(children) THEN <<>> ELSE Visited(children[j]) \o VisitedFrom(children, j + 1)

\* The tree normalizeFilterConditionsRecursive returns for a node once its
\* leaves are normalized: leaves holds them in visiting order and k is the
\* position of the first one below the node.  The result is [tree, k], k the
\* position after the node's last leaf.
RECURSIVE Rebuilt(_, _, _), RebuiltFrom(_, _, _, _, _)
Rebuilt(node, leaves, k) ==
    IF IsFilterConditionLeaf(node) THEN [tree |-> leaves[k], k |-> k + 1]
    ELSE IF IsFilterConditionGroup(node)
    THEN LET r == RebuiltFrom(node.conditions[2], 1, leaves, k, <<>>)
         IN  [tree |-> GroupOf(ToLowerCase(node.glue[2]), r.tree), k |-> r.k]
    ELSE [tree |-> GroupOf("and", <<>>), k |-> k]

RebuiltFrom(children, j, leaves, k, acc) ==
    IF j > Len(children) THEN [tree |-> acc, k |-> k]
    ELSE IF IsFilterConditionLeaf(children[j]) \/ IsFilterConditionGroup(children[j])
    THEN LET r == Rebuilt(children[j], leaves, k)
         IN  RebuiltFrom(children, j + 1, leaves, r.k, Append(acc, r.tree))
    ELSE RebuiltFrom(children, j + 1, leaves, k, acc)

EmptyConditions == GroupOf("and", <<GroupOf("and", <<>>), GroupOf("or", <<>>)>>)

\* What normalizeFilterConditions returns once every visited leaf is normalized.
NormalizedConditions(normalizedRoot, leaves) ==
    LET normalized == Rebuilt(normalizedRoot, leaves, 1).tree
    IN  IF ~IsFilterConditionGroup(normalized) THEN EmptyConditions ELSE normalized

\* The message of the error normalizeFilterConditionLeaf throws.
UnknownFieldError(rawFieldId, objectType) ==
    <<"Unknown field_id", rawFieldId, "for object", objectType,
      "Use the numeric field ID or a valid field key/name.">>

\* describeApiError on an error that is not an axios error: String(error).
DescribeApiError(error) == <<"Error:">> \o error

Callers == {"A", "B"}

IdleCall ==
    [pc |-> "idle", type |-> "", conditions |-> EmptyConditions, normalizedType |-> "",
     normalizedRoot |-> EmptyConditions, todo |-> <<>>, done |-> <<>>, awaiting |-> "",
     body |-> <<>>, error |-> <<>>, again |-> FALSE]

\* The body createFilter posts.
FilterBody(normalizedType, normalizedConditions) ==
    [type |-> IF normalizedType = "organization" THEN "org" ELSE normalizedType,
     conditions |-> normalizedConditions]

\* createFilter from the leaf it has reached up to its next request: the
\* leaves are normalized one after the other; the walk stops at a listing
\* request for a field map that is not cached, at an unknown field, or at
\* the POST of the normalized tree.  The result is the call and the log of
\* the calls made, the requests sent and the listings cached.
RECURSIVE Walk(_, _, _, _)
Walk(call, who, fieldMapCache, log) ==
    IF Len(call.done) = Len(call.todo)
    THEN [call |-> [call EXCEPT !.pc = "post",
                                !.body = <<FilterBody(call.normalizedType,
                                             NormalizedConditions(call.normalizedRoot,
                                                                  call.done))>>],
          log |-> Append(log, <<"post", who, call.normalizedType>>)]
    ELSE LET condition == call.todo[Len(call.done) + 1]
             objectType == LeafObjectType(condition, call.normalizedType)
             rawFieldId == condition.field_id
             normalizedType == NormalizeFilterObjectType(objectType)
             Resolve(fieldMap) ==
                 LET mapped == MappedFieldId(fieldMap, rawFieldId[2])
                 IN  IF mapped = <<>>
                     THEN [call |-> [call EXCEPT
                                       !.pc = "failed",
                                       !.error = DescribeApiError(
                                                   UnknownFieldError(rawFieldId[2],
                                                                     objectType))],
                           log |-> log]
                     ELSE Walk([call EXCEPT
                                  !.done = Append(@, NormalizedLeaf(condition, objectType,
                                                                    Text(mapped[1])))],
                               who, fieldMapCache, log)
         IN  IF ~IsSymbolic(rawFieldId)
             THEN Walk([call EXCEPT
                          !.done = Append(@, NormalizedLeaf(condition, objectType,
                                                            rawFieldId))],
                       who, fieldMapCache, log)
             ELSE IF normalizedType \in DOMAIN fieldMapCache
             THEN Resolve(fieldMapCache[normalizedType])
             ELSE IF GetFieldEndpointForObjectType(normalizedType) = <<>>
             THEN Resolve(EmptyMap)
             ELSE [call |-> [call EXCEPT !.pc = "fields", !.awaiting = normalizedType],
                   log |-> Append(log, <<"fields", who, normalizedType>>)]

\* createFilter(name, type, conditions): the type and the root are normalized
\* and the walk begins.
CreateFilter(c, type, conditions, again) ==
    LET normalizedType == NormalizeFilterObjectType(NormalizeFilterObjectType(type))
        normalizedRoot == NormalizeFilterRootGroupStructure(conditions)
        call == [IdleCall EXCEPT !.type = type,
                                 !.conditions = conditions,
                                 !.again = again,
                                 !.normalizedType = normalizedType,
                                 !.normalizedRoot = normalizedRoot,
                                 !.todo = Visited(normalizedRoot)]
        r == Walk(call, c, cf.fieldMapCache, Append(cf.log, <<"call", c, normalizedType>>))
    IN  cf' = [cf EXCEPT !.call[c] = r.call, !.log = r.log, !.starts = @ + 1]

\* createFilter is called with a type and a condition tree of the caller.
CreateFilterStart(c) ==
    /\ cf.call[c].pc \in {"idle", "done", "failed"}
    /\ cf.starts < cf.budget
    /\ \E input \in cf.offers[c] : CreateFilter(c, input.type, input.conditions, FALSE)
    /\ UNCHANGED <<pagedVars, bulkVars, digestVars, en, ld, fb, vp, ge, tl>>

\* createFilter is called with the type of the caller's last call and the
\* normalized tree that call posted.
CreateFilterAgain(c) ==
    /\ cf.call[c].pc = "done"
    /\ cf.starts < cf.budget
    /\ CreateFilter(c, cf.call[c].type, cf.call[c].body[1].conditions, TRUE)
    /\ UNCHANGED <<pagedVars, bulkVars, digestVars, en, ld, fb, vp, ge, tl>>

\* Variant of CacheFieldMap that caches nothing.
CacheFieldMapNever(fieldMapCache, normalizedType, fieldMap) == fieldMapCache

\* this.fieldMapCache.set(normalizedType, fieldMap)
CacheFieldMap(fieldMapCache, normalizedType, fieldMap) ==
    MapSet(fieldMapCache, normalizedType, fieldMap)

\* The listing of an object type's fields arrives: the field map is built
\* and cached, and the walk goes on.
FieldsResponse(c) ==
    /\ cf.call[c].pc = "fields"
    /\ LET normalizedType == cf.call[c].awaiting
           fieldMap == FieldMapOf(cf.remote[normalizedType])
           fieldMapCache == CacheFieldMap(cf.fieldMapCache, normalizedType, fieldMap)
           r == Walk(cf.call[c], c, fieldMapCache,
                     Append(cf.log, <<"stored", c, normalizedType>>))
       IN  cf' = [cf EXCEPT !.call[c] = r.call, !.log = r.log,
                            !.fieldMapCache = fieldMapCache]
    /\ UNCHANGED <<pagedVars, bulkVars, digestVars, en, ld, fb, vp, ge, tl>>

\* The listing request fails: createFilter rethrows.
FieldsFailure(c) ==
    /\ cf.call[c].pc = "fields"
    /\ cf' = [cf EXCEPT !.call[c].pc = "failed", !.call[c].error = <<"api">>]
    /\ UNCHANGED <<pagedVars, bulkVars, digestVars, en, ld, fb, vp, ge, tl>>

\* The POST succeeds: createFilter returns the created filter.
PostResponse(c) ==
    /\ cf.call[c].pc = "post"
    /\ cf' = [cf EXCEPT !.call[c].pc = "done"]
    /\ UNCHANGED <<pagedVars, bulkVars, digestVars, en, ld, fb, vp, ge, tl>>

\* The POST fails: createFilter rethrows.
PostFailure(c) ==
    /\ cf.call[c].pc = "post"
    /\ cf' = [cf EXCEPT !.call[c].pc = "failed", !.call[c].error = <<"api">>]
    /\ UNCHANGED <<pagedVars, bulkVars, digestVars, en, ld, fb, vp, ge, tl>>

\* The object types whose field listing the remote serves.
FieldTypes == {"activity", "deal", "person", "organization", "product", "project"}

IdleFilters ==
    [call |-> [c \in Callers |-> IdleCall],
     offers |-> [c \in Callers |-> {}],
     fieldMapCache |-> EmptyMap,
     remote |-> [t \in FieldTypes |-> <<>>],
     log |-> <<>>,
     starts |-> 0,
     budget |-> 0]

NoFilters == cf = IdleFilters

(***************************************************************************)
(* getWithV1Fallback.  A URL is the sequence of its parts, so that         *)
(* <<"https://api.pipedrive.com", "/v2">> is the default base URL.  An error*)
(* is [axios, status]: status 0 stands for an error that carries no        *)
(* response.  Request parameters are <<>> or <<[cursor, start, limit]>>,   *)
(* each of the three Undefined when it is absent.                          *)
(***************************************************************************)
\* baseURL.includes('/v2')
IncludesV2(baseURL) == \E j \in DOMAIN baseURL : baseURL[j] = "/v2"

\* baseURL.replace('/v2', '/v1'): the first occurrence is replaced.
GetV1BaseURL(baseURL) ==
    IF ~IncludesV2(baseURL) THEN baseURL
    ELSE LET first == CHOOSE j \in DOMAIN baseURL :
                         /\ baseURL[j] = "/v2"
                         /\ \A h \in 1..(j - 1) : baseURL[h] # "/v2"
         IN  [baseURL EXCEPT ![first] = "/v1"]

\* Variant of ShouldUseV1Fallback that accepts every axios error.
ShouldUseV1FallbackAnyStatus(baseURL, error) == IncludesV2(baseURL) /\ error.axios

ShouldUseV1Fallback(baseURL, error) ==
    IncludesV2(baseURL) /\ error.axios /\ error.status = 404

\* Number(cursor): <<n>>, or <<>> for NaN.
NumberOf(cursor) ==
    IF cursor[1] = "num" THEN <<cursor[2]>>
    ELSE IF cursor[1] = "null" THEN <<0>>
    ELSE IF cursor[1] = "text" /\ cursor[2] = "" THEN <<0>>
    ELSE IF cursor[1] = "text" /\ IsDigits(cursor[2])
    THEN <<CHOOSE n \in 0..MaxNumeral : cursor[2] = ToString(n)>>
    ELSE <<>>

\* params is <<>> (undefined) or <<p>>.
ToV1CompatibleParams(params) ==
    IF params = <<>> THEN params
    ELSE IF params[1].cursor = Undefined THEN params
    ELSE LET start == NumberOf(params[1].cursor)
         IN  <<[params[1] EXCEPT !.cursor = Undefined,
                                 !.start = IF start # <<>> THEN Num(start[1]) ELSE @]>>

IdleFallback ==
    [pc |-> "idle", baseURL |-> <<>>, path |-> "", params |-> <<>>,
     sent |-> <<>>, failures |-> <<>>, error |-> <<>>, starts |-> 0]

NoFallback == fb = IdleFallback

\* getWithV1Fallback is called: the request goes to the client's base URL.
FallbackStart ==
    /\ fb.pc \in {"ready", "returned", "failed"}
    /\ fb.starts < MaxFallbackStarts
    /\ fb' = [fb EXCEPT !.pc = "first", !.error = <<>>, !.starts = @ + 1,
                        !.failures = <<>>,
                        !.sent = <<[url |-> fb.baseURL \o <<fb.path>>,
                                    params |-> fb.params]>>]
    /\ UNCHANGED <<pagedVars, bulkVars, digestVars, en, ld, cf, vp, ge, tl>>

\* The first attempt succeeds.
FirstResponse ==
    /\ fb.pc = "first"
    /\ fb' = [fb EXCEPT !.pc = "returned"]
    /\ UNCHANGED <<pagedVars, bulkVars, digestVars, en, ld, cf, vp, ge, tl>>

Errors ==
    {[axios |-> TRUE, status |-> s] : s \in {0, 401, 404, 500}}
        \cup {[axios |-> FALSE, status |-> 404], [axios |-> FALSE, status |-> 0]}

\* The first attempt fails: the error is rethrown, or the request is sent
\* again to the v1 base URL.
FirstFailure ==
    /\ fb.pc = "first"
    /\ \E error \in Errors :
          IF ~ShouldUseV1Fallback(fb.baseURL, error)
          THEN fb' = [fb EXCEPT !.pc = "failed", !.error = <<error>>,
                                !.failures = Append(@, error)]
          ELSE fb' = [fb EXCEPT !.pc = "retry",
                                !.failures = Append(@, error),
                                !.sent = Append(@, [url |-> GetV1BaseURL(fb.baseURL)
                                                              \o <<fb.path>>,
                                                    params |-> ToV1CompatibleParams(
                                                                 fb.params)])]
    /\ UNCHANGED <<pagedVars, bulkVars, digestVars, en, ld, cf, vp, ge, tl>>

\* The v1 attempt succeeds.
RetryResponse ==
    /\ fb.pc = "retry"
    /\ fb' = [fb EXCEPT !.pc = "returned"]
    /\ UNCHANGED <<pagedVars, bulkVars, digestVars, en, ld, cf, vp, ge, tl>>

\* The v1 attempt fails: its error reaches the caller.
RetryFailure ==
    /\ fb.pc = "retry"
    /\ \E error \in Errors : fb' = [fb EXCEPT !.pc = "failed", !.error = <<error>>,
                                              !.failures = Append(@, error)]
    /\ UNCHANGED <<pagedVars, bulkVars, digestVars, en, ld, cf, vp, ge, tl>>

(***************************************************************************)
(* A paged fetch over getActivitiesByFilter / getDealsByFilter, whose page *)
(* requests go to the v2 API and, when that answers 404, to the v1 API.    *)
(* The v2 API continues after an opaque cursor of its own making, the v1   *)
(* API at the offset `start` (0 when none is sent).                        *)
(***************************************************************************)
V2BaseURL == <<"https://api.pipedrive.com/api", "/v2">>

\* An opaque next_cursor of the v2 API, naming the position it continues at.
V2Cursor(pos) == <<"text", "v2:", pos>>

IsV2Cursor(c) == Len(c) = 3 /\ c[2] = "v2:"

\* String(n)
StringOf(n) == Text(ToString(n))

\* const params = { filter_id, ..., limit }; if (cursor) params.cursor = cursor
PageParams(call) ==
    <<[cursor |-> IF Truthy(call.cursor) THEN call.cursor ELSE Undefined,
       start |-> Undefined,
       limit |-> Num(call.limit)]>>

\* The items of a collection of `size` items from position pos on, at most k.
Stretch(size, pos, k) == PageItems(pos, Min(k, IF size > pos THEN size - pos ELSE 0))

\* The payload of the v2 API: a page after the cursor, with a next_cursor
\* while items remain and null at the end.
V2Payload(size, params) ==
    LET pos  == IF params[1].cursor = Undefined THEN 0 ELSE params[1].cursor[3]
        data == Stretch(size, pos, params[1].limit[2])
    IN  [data |-> data,
         pagination |-> <<[next_cursor |-> IF pos + Len(data) < size
                                           THEN V2Cursor(pos + Len(data)) ELSE Null,
                           next_start |-> Undefined]>>]

\* The v2 API pages only after a cursor of its own.
V2Accepts(params) == params[1].cursor = Undefined \/ IsV2Cursor(params[1].cursor)

\* The payloads of the v1 API: a page from `start` on; its pagination block
\* names next_start while items remain, and may leave it out or be missing
\* altogether.
V1Payloads(size, params) ==
    LET pos  == IF params[1].start = Undefined THEN 0 ELSE params[1].start[2]
        data == Stretch(size, pos, params[1].limit[2])
        more == pos + Len(data) < size
    IN  {[data |-> data,
          pagination |-> <<[next_cursor |-> Undefined,
                            next_start |-> IF more THEN Num(pos + Len(data))
                                           ELSE Undefined]>>],
         [data |-> data,
          pagination |-> <<[next_cursor |-> Undefined, next_start |-> Undefined]>>],
         [data |-> data, pagination |-> <<>>]}

\* Variant of NormalizePaginatedResponse that makes up a cursor from the
\* number of items when the block names none.
NormalizePaginatedResponseCounting(payload) ==
    IF payload.pagination # <<>> /\ payload.pagination[1].next_cursor = Undefined
    THEN [payload EXCEPT !.pagination[1].next_cursor = StringOf(Len(payload.data))]
    ELSE payload

NormalizePaginatedResponse(payload) ==
    IF /\ payload.pagination # <<>>
       /\ payload.pagination[1].next_cursor = Undefined
       /\ payload.pagination[1].next_start # Undefined
    THEN [payload EXCEPT !.pagination[1].next_cursor =
                            StringOf(payload.pagination[1].next_start[2])]
    ELSE payload

\* response.additional_data?.pagination?.next_cursor, as the loop tests it:
\* NoCursor stands for undefined and null.
NextCursorOf(normalized) ==
    IF normalized.pagination = <<>> THEN NoCursor
    ELSE IF normalized.pagination[1].next_cursor \in {Undefined, Null} THEN NoCursor
    ELSE normalized.pagination[1].next_cursor

\* What get...ByFilter returns to the loop.
PageOf(payload) ==
    LET normalized == NormalizePaginatedResponse(payload)
    IN  [data |-> normalized.data, next |-> NextCursorOf(normalized)]

IdleVersioned ==
    [fetch |-> IdleFetch, size |-> 0, wire |-> "none", sent |-> <<>>, served |-> <<>>,
     payloads |-> <<>>, failures |-> <<>>]

NoVersioned == vp = IdleVersioned

(***************************************************************************)
(* getPerson / getOrganization / getStage.                                 *)
(***************************************************************************)
GetterKinds == {"person", "organization", "stage"}

\* `/persons/${personId}`, `/organizations/${orgId}`, `/stages/${stageId}`
GetterPath(kind, id) ==
    <<CASE kind = "person" -> "/persons"
        [] kind = "organization" -> "/organizations"
        [] kind = "stage" -> "/stages", id>>

\* The entity the remote holds under the identifier.
SingleEntity(kind, id) == <<"obj", id, kind>>

\* response.data of a by-id request: no body at all, or a body whose data is
\* the entity, null or missing.
Bodies(kind, id) ==
    {<<>>, <<[data |-> SingleEntity(kind, id)]>>, <<[data |-> Null]>>, <<[data |-> Undefined]>>}

IdleGetters ==
    [pc |-> "idle", kind |-> "person", id |-> 0, sent |-> <<>>, answers |-> <<>>,
     failures |-> <<>>, result |-> <<>>]

NoGetters == ge = IdleGetters

\* Variant of GetCaught that lets every error but a 404 through.
GetCaughtNotFoundOnly(g, error) ==
    IF error.status = 404
    THEN [g EXCEPT !.pc = "returned", !.result = <<Null>>]
    ELSE [g EXCEPT !.pc = "failed"]

\* catch (error) { return null; }
GetCaught(g, error) == [g EXCEPT !.pc = "returned", !.result = <<Null>>]

\* return response.data.data: reading data of a missing body throws a
\* TypeError inside the try block.
GetReturn(g, body) ==
    IF body = <<>> THEN GetCaught(g, [axios |-> FALSE, status |-> 0])
    ELSE [g EXCEPT !.pc = "returned", !.result = <<body[1].data>>]

\* A caller invokes the getter: the request goes to the v2 API.
GetStart ==
    /\ ge.pc = "ready"
    /\ ge' = [ge EXCEPT !.pc = "v2",
                        !.sent = <<[url |-> V2BaseURL \o GetterPath(ge.kind, ge.id),
                                    params |-> <<>>]>>]
    /\ UNCHANGED <<pagedVars, bulkVars, digestVars, en, ld, cf, fb, vp, tl>>

\* The v2 API, or the v1 API after it, answers.
GetResponse ==
    /\ ge.pc \in {"v2", "v1"}
    /\ \E body \in Bodies(ge.kind, ge.id) :
          ge' = GetReturn([ge EXCEPT !.answers = Append(@, [version |-> ge.pc,
                                                            body |-> body])], body)
    /\ UNCHANGED <<pagedVars, bulkVars, digestVars, en, ld, cf, fb, vp, tl>>

\* The request to the v2 API fails: it is sent again to the v1 API after a
\* 404, and every other error is caught.
GetV2Failure ==
    /\ ge.pc = "v2"
    /\ \E error \in Errors :
          LET g == [ge EXCEPT !.failures = Append(@, error)]
          IN  IF ~ShouldUseV1Fallback(V2BaseURL, error)
              THEN ge' = GetCaught(g, error)
              ELSE ge' = [g EXCEPT !.pc = "v1",
                                   !.sent = Append(@, [url |-> GetV1BaseURL(V2BaseURL)
                                                                 \o GetterPath(ge.kind, ge.id),
                                                       params |-> ToV1CompatibleParams(
                                                                    <<>>)])]
    /\ UNCHANGED <<pagedVars, bulkVars, digestVars, en, ld, cf, fb, vp, tl>>

\* The request to the v1 API fails: the error is caught.
GetV1Failure ==
    /\ ge.pc = "v1"
    /\ \E error \in Errors :
          ge' = GetCaught([ge EXCEPT !.failures = Append(@, error)], error)
    /\ UNCHANGED <<pagedVars, bulkVars, digestVars, en, ld, cf, fb, vp, tl>>

(***************************************************************************)
(* getFilters, resolveFilterByName, resolveFilterId and the handler of the *)
(* miinta.sales_queue.get tool.                                            *)
(***************************************************************************)
MaxItemsPerSection == 50

MaxToolLimit == 200

SavedFilter(id, name, type) == [id |-> id, name |-> name, type |-> type]

\* The filters saved at the remote.
SavedFilters ==
    <<SavedFilter(11, "Overdue", "activity"), SavedFilter(12, "Today", "activity"),
      SavedFilter(14, "today", "activity"), SavedFilter(13, "Stalled", "deals"),
      SavedFilter(15, "Overdue", "deals")>>

\* The second argument the handler gives resolveFilterId for each filter.
ExpectedType(s) == IF s = "missing" THEN "deals" ELSE "activities"

\* getFilters: params.type = type === 'activities' ? 'activity' : type
FiltersParams(type) == [type |-> IF type = "activities" THEN "activity" ELSE type]

\* response.data?.data || []: the remote lists its filters of the type asked
\* for, or answers without a list.
FilterListings(params) ==
    {SelectSeq(SavedFilters, LAMBDA f : f.type = params.type), <<>>}

\* Variant of Matches that compares the names as they are spelled.
MatchesExactly(filters, name) == SelectSeq(filters, LAMBDA f : f.name = name)

\* filters.filter(f => f.name.toLowerCase() === name.toLowerCase())
Matches(filters, name) ==
    SelectSeq(filters, LAMBDA f : ToLowerCase(f.name) = ToLowerCase(name))

\* `${f.name} (id=${f.id}, type=${f.type})` for every match
Candidates(matches) ==
    [j \in DOMAIN matches |-> <<matches[j].name, matches[j].id, matches[j].type>>]

\* resolveFilterByName after getFilters has returned, and resolveFilterId's
\* `return filter.id`: <<"id", n>>, or <<"error", message>> when it throws.
ResolveFilterByName(filters, name, type) ==
    LET matches == Matches(filters, name)
    IN  IF Len(matches) = 0
        THEN <<"error", <<"No filter found with name", name, type>>>>
        ELSE IF Len(matches) > 1
        THEN <<"error", <<"Multiple filters match name", name, Candidates(matches)>>>>
        ELSE <<"id", matches[1].id>>

IdleResolve ==
    [pc |-> "idle", value |-> Undefined, type |-> "", requests |-> <<>>,
     listing |-> <<>>, out |-> <<>>]

\* Variant of ResolveFilterId that looks every value up.
ResolveFilterIdAlways(value, expectedType) ==
    [IdleResolve EXCEPT !.pc = "await", !.value = value, !.type = expectedType,
                        !.requests = <<FiltersParams(expectedType)>>]

\* resolveFilterId up to its first await: a number is returned as it is, for
\* anything else the filters of the expected type are requested.
ResolveFilterId(value, expectedType) ==
    IF value[1] = "num"
    THEN [IdleResolve EXCEPT !.pc = "resolved", !.value = value, !.type = expectedType,
                             !.out = <<"id", value[2]>>]
    ELSE [IdleResolve EXCEPT !.pc = "await", !.value = value, !.type = expectedType,
                             !.requests = <<FiltersParams(expectedType)>>]

\* The listing arrived.
ResolveOnListing(r, filters) ==
    LET out == ResolveFilterByName(filters, r.value[2], r.type)
    IN  [r EXCEPT !.pc = IF out[1] = "id" THEN "resolved" ELSE "failed",
                  !.listing = <<filters>>,
                  !.out = out]

\* The listing request was rejected: error.message of the transport's error.
ResolveOnFailure(r, error) ==
    [r EXCEPT !.pc = "failed", !.out = <<"error", <<"Request failed", error.status>>>>]

IdleTool ==
    [pc |-> "idle", args |-> <<>>, res |-> [s \in Streams |-> IdleResolve],
     limits |-> [s \in Streams |-> 0], result |-> <<>>]

NoTool == tl = IdleTool

\* { content: [{ type: "text", text }], isError }
ToolResult(t, isError, text) ==
    [t EXCEPT !.pc = "done", !.result = <<[isError |-> isError, text |-> text]>>]

\* args.limits?.<section>
LimitArg(args, s) == IF args[1].limits = <<>> THEN Undefined ELSE args[1].limits[1][s]

\* Variant of LimitOf that defaults a missing limit only (a ?? b).
LimitOfNullish(args, s) == OrJSNullish(LimitArg(args, s), Num(MaxItemsPerSection))

\* args.limits?.<section> || MAX_ITEMS_PER_SECTION
LimitOf(args, s) == OrJS(LimitArg(args, s), Num(MaxItemsPerSection))

\* validateLimit
ValidateLimit(value) == ~(value < 1 \/ value > MaxToolLimit)

\* The handler after the three filters are resolved: the limits are read
\* and validated, and getSalesQueueDigest is called.
AfterResolve(t, d) ==
    LET limits == [s \in Streams |-> LimitOf(t.args, s)[2]]
    IN  IF \E s \in Streams : ~ValidateLimit(limits[s])
        THEN [tl |-> ToolResult(t, TRUE, <<"Error: All limits must be between 1 and 200">>),
              dg |-> d]
        ELSE [tl |-> [t EXCEPT !.pc = "digest", !.limits = limits],
              dg |-> [IdleDigest EXCEPT !.pc = "ready",
                                        !.filters = [s \in Streams |-> t.res[s].out[2]],
                                        !.limits = limits,
                                        !.now = [day |-> 3, tod |-> 0]]]

\* await Promise.all of the three resolveFilterId calls inside its try block.
ResolveJoin(t, d) ==
    IF t.pc # "resolving" THEN [tl |-> t, dg |-> d]
    ELSE IF \E s \in Streams : t.res[s].pc = "failed"
    THEN LET s == CHOOSE s \in Streams : t.res[s].pc = "failed"
         IN  [tl |-> ToolResult(t, TRUE, <<"Error resolving filter: ", t.res[s].out[2]>>),
              dg |-> d]
    ELSE IF \A s \in Streams : t.res[s].pc = "resolved"
    THEN AfterResolve(t, d)
    ELSE [tl |-> t, dg |-> d]

\* The handler up to its first await.
ToolEntry(t, d) ==
    IF t.args = <<>> \/ t.args[1].filters = <<>>
    THEN [tl |-> ToolResult(t, TRUE, <<"Error: filters object is required">>), dg |-> d]
    ELSE IF \E s \in Streams : Falsy(t.args[1].filters[1][s])
    THEN [tl |-> ToolResult(t, TRUE,
                   <<"Error: All three filter IDs or names are required in filters object">>),
          dg |-> d]
    ELSE ResolveJoin([t EXCEPT !.pc = "resolving",
                               !.res = [s \in Streams |->
                                          ResolveFilterId(t.args[1].filters[1][s],
                                                          ExpectedType(s))]], d)

\* The tool is called.
ToolStart ==
    /\ tl.pc = "ready"
    /\ LET j == ToolEntry(tl, dg) IN tl' = j.tl /\ dg' = j.dg
    /\ UNCHANGED <<pagedVars, bulkVars, cache, clock, en, ld, cf, fb, vp, ge>>

\* The listing request of one resolveFilterId call is answered.
FiltersResponse(s) ==
    /\ tl.res[s].pc = "await"
    /\ \E filters \in FilterListings(tl.res[s].requests[1]) :
          LET j == ResolveJoin([tl EXCEPT !.res[s] = ResolveOnListing(@, filters)], dg)
          IN  tl' = j.tl /\ dg' = j.dg
    /\ UNCHANGED <<pagedVars, bulkVars, cache, clock, en, ld, cf, fb, vp, ge>>

\* The listing request of one resolveFilterId call is rejected.
FiltersFailure(s) ==
    /\ tl.res[s].pc = "await"
    /\ \E error \in Errors :
          LET j == ResolveJoin([tl EXCEPT !.res[s] = ResolveOnFailure(@, error)], dg)
          IN  tl' = j.tl /\ dg' = j.dg
    /\ UNCHANGED <<pagedVars, bulkVars, cache, clock, en, ld, cf, fb, vp, ge>>

\* getSalesQueueDigest has returned or thrown: the handler returns the
\* digest as text, or the error result of its outer catch.
ToolSettle ==
    /\ tl.pc = "digest"
    /\ dg.pc \in {"returned", "failed"}
    /\ tl' = IF dg.pc = "returned"
             THEN ToolResult(tl, FALSE, <<"digest", dg.out[1]>>)
             ELSE ToolResult(tl, TRUE, <<"Error fetching sales queue digest: ", "message">>)
    /\ UNCHANGED <<pagedVars, bulkVars, digestVars, en, ld, cf, fb, vp, ge>>

\* The loop went on to its next request, which goes to the v2 API first, or
\* it was left.
Issue(v) ==
    IF v.fetch.pc = "await"
    THEN [v EXCEPT !.wire = "v2",
                   !.sent = Append(@, [version |-> "v2",
                                       params |-> PageParams(LastCall(v.fetch))])]
    ELSE [v EXCEPT !.wire = "none"]

LastSent(v) == v.sent[Len(v.sent)]

\* A caller invokes fetchAll...ByFilter.
VersionedStart ==
    /\ vp.fetch.pc = "ready"
    /\ vp' = Issue([vp EXCEPT !.fetch = FetchEntry(vp.fetch.filterId, vp.fetch.limit)])
    /\ UNCHANGED <<pagedVars, bulkVars, digestVars, en, ld, cf, fb, ge, tl>>

\* The v2 API answers the request in flight with a page.
V2Page ==
    /\ vp.wire = "v2"
    /\ V2Accepts(LastSent(vp).params)
    /\ vp' = Issue([vp EXCEPT
                      !.fetch = FetchOnResponse(
                                    vp.fetch,
                                    PageOf(V2Payload(vp.size, LastSent(vp).params))),
                      !.served = Append(@, "v2"),
                      !.payloads = Append(@, V2Payload(vp.size, LastSent(vp).params))])
    /\ UNCHANGED <<pagedVars, bulkVars, digestVars, en, ld, cf, fb, ge, tl>>

\* The request to the v2 API fails: the error reaches the loop, or the
\* request is sent again to the v1 API.
V2Failure ==
    /\ vp.wire = "v2"
    /\ \E error \in Errors :
          IF ~ShouldUseV1Fallback(V2BaseURL, error)
          THEN vp' = [vp EXCEPT !.fetch = FetchOnFailure(vp.fetch), !.wire = "none",
                                !.failures = Append(@, error)]
          ELSE vp' = [vp EXCEPT !.wire = "v1",
                                !.failures = Append(@, error),
                                !.sent = Append(@, [version |-> "v1",
                                                    params |-> ToV1CompatibleParams(
                                                                 LastSent(vp).params)])]
    /\ UNCHANGED <<pagedVars, bulkVars, digestVars, en, ld, cf, fb, ge, tl>>

\* The v1 API answers the request in flight with a page.
V1Page ==
    /\ vp.wire = "v1"
    /\ \E payload \in V1Payloads(vp.size, LastSent(vp).params) :
          vp' = Issue([vp EXCEPT !.fetch = FetchOnResponse(vp.fetch, PageOf(payload)),
                                 !.served = Append(@, "v1"),
                                 !.payloads = Append(@, payload)])
    /\ UNCHANGED <<pagedVars, bulkVars, digestVars, en, ld, cf, fb, ge, tl>>

\* The request to the v1 API fails: its error reaches the loop.
V1Failure ==
    /\ vp.wire = "v1"
    /\ \E error \in Errors :
          vp' = [vp EXCEPT !.fetch = FetchOnFailure(vp.fetch), !.wire = "none",
                           !.failures = Append(@, error)]
    /\ UNCHANGED <<pagedVars, bulkVars, digestVars, en, ld, cf, fb, ge, tl>>

(***************************************************************************)
(* SpecPaged: one paged fetch against an arbitrary upstream.               *)
(***************************************************************************)
NoDigest ==
    /\ dg = IdleDigest
    /\ cache = EmptyMap
    /\ clock = 0

IdleEnrich ==
    [pc |-> "idle", kind |-> "none", raw |-> <<>>, now |-> [day |-> 1, tod |-> 0],
     persons |-> EmptyMap, orgs |-> EmptyMap, deals |-> EmptyMap, out |-> <<>>]

NoEnrich == en = IdleEnrich

Builds == {"A", "B"}

IdleLoad == [pc |-> "idle", stagesMap |-> EmptyMap]

IdleLoads == [load |-> [b \in Builds |-> IdleLoad], log |-> <<>>, ticks |-> 0]

NoLoads == ld = IdleLoads

InitPaged ==
    /\ \E s \in {"overdue", "missing"}, limit \in 0..MaxLimit :
          fetch = [t \in Streams |->
                     IF t = s THEN [IdleFetch EXCEPT !.pc = "ready", !.filterId = 1,
                                                     !.limit = limit]
                     ELSE IdleFetch]
    /\ upstream = [t \in Streams |-> [wild |-> TRUE, size |-> 0]]
    /\ bulk = [t \in EntityTypes |-> IdleBulk]
    /\ registry = [t \in EntityTypes |-> [wild |-> FALSE]]
    /\ NoDigest
    /\ NoEnrich
    /\ NoLoads
    /\ NoFilters
    /\ NoFallback
    /\ NoVersioned
    /\ NoGetters
    /\ NoTool

NextPaged ==
    \E s \in Streams : FetchStart(s) \/ PageResponse(s) \/ PageFailure(s)

SpecPaged == InitPaged /\ [][NextPaged]_vars

(***************************************************************************)
(* SpecPagedLive: one paged fetch with a limit small enough that the call  *)
(* budget of the model cannot cut a terminating fetch short.  Every request*)
(* in flight is eventually settled: the upstream answers or the transport  *)
(* rejects, and the event loop then resumes the awaiting function.         *)
(***************************************************************************)
InitPagedLive ==
    /\ InitPaged
    /\ \A s \in Streams : fetch[s].limit <= MaxCalls

SpecPagedLive == InitPagedLive /\ [][NextPaged]_vars /\ WF_vars(NextPaged)

(***************************************************************************)
(* SpecBulk: one bulk fetch of distinct identifiers, given in ascending or *)
(* descending order, against an arbitrary remote.                          *)
(***************************************************************************)
IdList(n, order) == [j \in 1..n |-> IF order = "asc" THEN j ELSE n + 1 - j]

InitBulk ==
    /\ \E t \in EntityTypes, n \in 0..MaxIds, order \in {"asc", "desc"} :
          bulk = [u \in EntityTypes |->
                    IF u = t THEN [IdleBulk EXCEPT !.pc = "ready", !.ids = IdList(n, order)]
                    ELSE IdleBulk]
    /\ registry = [u \in EntityTypes |-> [wild |-> TRUE]]
    /\ fetch = [s \in Streams |-> IdleFetch]
    /\ upstream = [s \in Streams |-> [wild |-> FALSE, size |-> 0]]
    /\ NoDigest
    /\ NoEnrich
    /\ NoLoads
    /\ NoFilters
    /\ NoFallback
    /\ NoVersioned
    /\ NoGetters
    /\ NoTool

NextBulk ==
    \E t \in EntityTypes : BulkStart(t) \/ BatchResponse(t) \/ BatchFailure(t)

SpecBulk == InitBulk /\ [][NextBulk]_vars

(***************************************************************************)
(* SpecDigest: one digest build.  Each section limit is 1 or DigestLimit,  *)
(* each collection is empty or holds SourceSize items, the stage cache is  *)
(* cold or warm, and every request may fail.                               *)
(***************************************************************************)
InitDigest ==
    /\ \E limits \in [Streams -> {1, DigestLimit}], include \in BOOLEAN :
          dg = [IdleDigest EXCEPT !.pc = "ready",
                                  !.filters = [s \in Streams |->
                                                 IF s = "overdue" THEN 11
                                                 ELSE IF s = "today" THEN 12 ELSE 13],
                                  !.limits = limits,
                                  !.include = include,
                                  !.now = [day |-> 3, tod |-> MaxTod]]
    /\ \E sizes \in [Streams -> {0, SourceSize}] :
          upstream = [s \in Streams |-> [wild |-> FALSE, size |-> sizes[s]]]
    /\ \E warm \in BOOLEAN :
          cache = IF warm
                  THEN CacheSet(EmptyMap, "stages_all", StageList, CacheTTL, 0)
                  ELSE EmptyMap
    /\ clock = 0
    /\ fetch = [s \in Streams |-> IdleFetch]
    /\ bulk = [t \in EntityTypes |-> IdleBulk]
    /\ registry = [t \in EntityTypes |-> [wild |-> FALSE]]
    /\ NoEnrich
    /\ NoLoads
    /\ NoFilters
    /\ NoFallback
    /\ NoVersioned
    /\ NoGetters
    /\ NoTool

NextDigest ==
    \/ DigestStart
    \/ StagesResponse
    \/ StagesFailure
    \/ \E s \in Streams : PageResponse(s) \/ PageFailure(s)
    \/ \E t \in EntityTypes : BatchResponse(t) \/ BatchFailure(t)

SpecDigest == InitDigest /\ [][NextDigest]_vars

(***************************************************************************)
(* SpecEnrich: one call of enrichActivity or enrichDeal on the normalized  *)
(* form of a raw record, every reference and optional field of which takes *)
(* each of its forms, against maps that hold or lack the referenced        *)
(* entity.  The stage table is that of StageList: stage 1 is in it, stage  *)
(* 3 is not.                                                               *)
(***************************************************************************)
\* The forms of a reference to entity `id`.
RefForms(id, name) == {Null, <<"num", id>>, <<"obj", id, name>>}

\* A string field: empty, or the given text.
NameForms(name) == {<<>>, name}

\* A map that lacks, or holds, the entity e.
MapForms(es) == {EmptyMap} \cup {[k \in {e.id} |-> e] : e \in es}

Dates == [day : 1..MaxDay, tod : 0..MaxTod]

RawActivities ==
    [id : {1}, due_date : 1..MaxDay,
     person_id : RefForms(7, <<"person", "ref">>), person_name : NameForms(<<"person", "own">>),
     org_id : {Undefined, <<"obj", 8, <<"org", "ref">> >>}, org_name : NameForms(<<"org", "own">>),
     deal_id : {<<"num", 0>>, <<"num", 9>>}, deal_title : NameForms(<<"deal", "own">>)]

RawDeals ==
    [id : {9}, title : {<<"deal", "own">>}, stage_id : {1, 3},
     person_id : RefForms(7, <<"person", "ref">>), person_name : NameForms(<<"person", "own">>),
     org_id : {Undefined, <<"num", 8>>}, org_name : NameForms(<<"org", "own">>),
     owner_id : {Undefined, Null, <<"num", 0>>, <<"num", 5>>, <<"obj", 5, <<"owner">> >>},
     undone_activities_count : {Undefined, Null, <<"num", 0>>, <<"num", 3>>},
     next_activity_id : {Undefined, Null, <<"num", 0>>, <<"num", 4>>},
     last_outgoing_mail_time : {Undefined, Null, <<"str", <<>> >>, <<"str", <<"sent">> >>},
     last_incoming_mail_time : {Undefined, <<"str", <<"got">> >>}]

PersonForms ==
    MapForms({[id |-> 7, name |-> <<"person", "fetched">>, email |-> em] :
                em \in {<<>>,
                        <<[value |-> <<"first">>, primary |-> FALSE]>>,
                        <<[value |-> <<"first">>, primary |-> FALSE],
                          [value |-> <<"primary">>, primary |-> TRUE]>>}})

OrgForms == MapForms({[id |-> 8, name |-> <<"org", "fetched">>]})

DealForms ==
    MapForms({[id |-> 9, title |-> <<"deal", "fetched">>, stage_id |-> st] : st \in {1, 3}})

InitEnrich ==
    /\ \/ \E raw \in RawActivities, now \in Dates,
             persons \in PersonForms, orgs \in OrgForms, deals \in DealForms :
             en = [IdleEnrich EXCEPT !.pc = "ready", !.kind = "activity", !.raw = raw,
                                     !.now = now, !.persons = persons, !.orgs = orgs,
                                     !.deals = deals]
       \/ \E raw \in RawDeals, persons \in PersonForms, orgs \in OrgForms :
             en = [IdleEnrich EXCEPT !.pc = "ready", !.kind = "deal", !.raw = raw,
                                     !.persons = persons, !.orgs = orgs]
    /\ fetch = [s \in Streams |-> IdleFetch]
    /\ upstream = [s \in Streams |-> [wild |-> FALSE, size |-> 0]]
    /\ bulk = [t \in EntityTypes |-> IdleBulk]
    /\ registry = [t \in EntityTypes |-> [wild |-> FALSE]]
    /\ NoDigest
    /\ NoLoads
    /\ NoFilters
    /\ NoFallback
    /\ NoVersioned
    /\ NoGetters
    /\ NoTool

NextEnrich == EnrichActivityCall \/ EnrichDealCall

SpecEnrich == InitEnrich /\ [][NextEnrich]_vars

(***************************************************************************)
(* SpecStages: two builds of one service call loadStages, again and again  *)
(* and in any interleaving, while time passes and the remote's stage list  *)
(* may change.  The cache starts empty.                                    *)
(***************************************************************************)
InitStages ==
    /\ ld = IdleLoads
    /\ cache = EmptyMap
    /\ clock = 0
    /\ dg = IdleDigest
    /\ fetch = [s \in Streams |-> IdleFetch]
    /\ upstream = [s \in Streams |-> [wild |-> FALSE, size |-> 0]]
    /\ bulk = [t \in EntityTypes |-> IdleBulk]
    /\ registry = [t \in EntityTypes |-> [wild |-> FALSE]]
    /\ NoEnrich
    /\ NoFilters
    /\ NoFallback
    /\ NoVersioned
    /\ NoGetters
    /\ NoTool

NextStages ==
    \/ \E b \in Builds : LoadStagesStart(b) \/ LoadStagesResponse(b) \/ LoadStagesFailure(b)
    \/ Tick

SpecStages == InitStages /\ [][NextStages]_vars

(***************************************************************************)
(* SpecFilter: two createFilter calls of one caller.  The condition tree   *)
(* is drawn from eight shapes over leaves of every form; the second call   *)
(* repeats the first or submits the tree the first one posted.  The        *)
(* remote's deal and person listings name the same field differently.      *)
(***************************************************************************)
Field(id, key, name) == [id |-> id, key |-> key, name |-> name]

Remote ==
    [t \in FieldTypes |->
        IF t = "deal" THEN <<Field(21, Text("title"), Text("Title")),
                             Field(22, Text("owner"), Text("Owner"))>>
        ELSE IF t = "person" THEN <<Field(31, Text("title"), Text("Title"))>>
        ELSE <<>>]

Leaf(object, field_id, extra_value) ==
    Node(object, field_id, Text("="), Num(1), extra_value, Undefined, Undefined)

\* A child that is neither a leaf nor a group.
Other == Node(Undefined, Undefined, Undefined, Undefined, Undefined, Undefined, Undefined)

LeafObjects == {Undefined, Text(""), Text("Deals")}

LeafFieldIds == {Num(5), Text("12"), Text("Title"), Text("ghost")}

LeafForms(extra_value) ==
    {Leaf(o, f, extra_value) : o \in LeafObjects, f \in LeafFieldIds}

LeafSeqs(extra_value) ==
    UNION {[1..n -> LeafForms(extra_value)] : n \in 0..MaxKids}

Group(glue, children) ==
    Node(Undefined, Undefined, Undefined, Undefined, Undefined, glue, Arr(children))

Shapes == 1..9

Shape(k, glue, ls) ==
    CASE k = 1 -> Group(glue, ls)
      [] k = 2 -> Group(glue, <<Group(Text("AND"), ls)>>)
      [] k = 3 -> Group(glue, <<Group(Text("OR"), ls), Group(Text("and"), Reverse(ls))>>)
      [] k = 4 -> Group(glue, ls \o <<Group(Text("and"), ls)>>)
      [] k = 5 -> Group(glue, <<Group(Text("and"), <<Group(Text("OR"), ls)>> \o ls)>>)
      [] k = 6 -> Group(glue, <<Group(Text("And"), Tail0(ls)), Group(Text("and"), ls), Other>>)
      [] k = 7 -> Node(Undefined, Undefined, Undefined, Undefined, Undefined, glue, Undefined)
      [] k = 8 -> Group(glue, <<Group(Text("and"), <<Other>> \o ls)>>)
      [] k = 9 -> Group(glue, <<Group(Text("Xor"), ls), Group(Text("Or"), Tail0(ls)),
                                Group(Text("OR"), ls)>> \o Tail0(ls))

Settings ==
    {[glue |-> Undefined, type |-> "deals", extra_value |-> Undefined],
     [glue |-> Text("AND"), type |-> "People", extra_value |-> Num(9)],
     [glue |-> Text("Or"), type |-> " Deal ", extra_value |-> Null],
     [glue |-> Text("and"), type |-> "leads", extra_value |-> Undefined]}

OtherIdle ==
    /\ fetch = [s \in Streams |-> IdleFetch]
    /\ upstream = [s \in Streams |-> [wild |-> FALSE, size |-> 0]]
    /\ bulk = [t \in EntityTypes |-> IdleBulk]
    /\ registry = [t \in EntityTypes |-> [wild |-> FALSE]]
    /\ NoDigest
    /\ NoEnrich
    /\ NoLoads

InitFilter ==
    /\ \E g \in Settings, k \in Shapes :
          \E ls \in LeafSeqs(g.extra_value) :
             cf = [IdleFilters EXCEPT
                     !.offers["A"] = {[type |-> g.type, conditions |-> Shape(k, g.glue, ls)]},
                     !.remote = Remote,
                     !.budget = 2]
    /\ NoFallback
    /\ OtherIdle
    /\ NoVersioned
    /\ NoGetters
    /\ NoTool

NextFilter ==
    \E c \in Callers :
       \/ CreateFilterStart(c)
       \/ CreateFilterAgain(c)
       \/ FieldsResponse(c)
       \/ FieldsFailure(c)
       \/ PostResponse(c)
       \/ PostFailure(c)

SpecFilter == InitFilter /\ [][NextFilter]_vars

(***************************************************************************)
(* SpecResolve: createFilter calls on a single deal leaf whose field is    *)
(* given by a symbolic name, against every listing of up to MaxFields      *)
(* fields whose keys and names may collide.                                *)
(***************************************************************************)
FieldTexts == {Undefined, Text("title"), Text("Title"), Text("owner")}

FieldLists ==
    UNION {{[j \in 1..n |-> Field(10 + j, keys[j], names[j])] :
               keys \in [1..n -> FieldTexts], names \in [1..n -> FieldTexts]} :
           n \in 0..MaxFields}

SymbolicInputs == {"title", "Title", "TITLE", "tItLe", "owner", "OWNER", "ghost"}

InitResolve ==
    /\ \E fields \in FieldLists, x \in SymbolicInputs :
          cf = [IdleFilters EXCEPT
                  !.offers["A"] = {[type |-> "deal",
                                    conditions |-> Group(Text("and"),
                                                     <<Leaf(Text("deal"), Text(x),
                                                            Undefined)>>)]},
                  !.remote = [Remote EXCEPT !["deal"] = fields],
                  !.budget = 2]
    /\ NoFallback
    /\ OtherIdle
    /\ NoVersioned
    /\ NoGetters
    /\ NoTool

SpecResolve == InitResolve /\ [][NextFilter]_vars

(***************************************************************************)
(* SpecFieldCache: two callers of one client call createFilter again and   *)
(* again, in any interleaving, under synonyms of the object types.         *)
(***************************************************************************)
Offers ==
    {[type |-> "deals", conditions |-> Group(Text("and"),
                                         <<Leaf(Text("Deal"), Text("Title"), Undefined),
                                           Leaf(Text("people"), Text("title"), Undefined)>>)],
     [type |-> "People", conditions |-> Group(Text("and"),
                                          <<Leaf(Text(""), Text("TITLE"), Undefined)>>)],
     [type |-> " Deal ", conditions |-> Group(Text("and"),
                                          <<Leaf(Text(""), Text("owner"), Undefined)>>)],
     [type |-> "leads", conditions |-> Group(Text("and"),
                                         <<Leaf(Text(""), Num(5), Undefined)>>)]}

InitFieldCache ==
    /\ cf = [IdleFilters EXCEPT !.offers = [c \in Callers |-> Offers],
                                !.remote = Remote,
                                !.budget = MaxFilterStarts]
    /\ NoFallback
    /\ OtherIdle
    /\ NoVersioned
    /\ NoGetters
    /\ NoTool

SpecFieldCache == InitFieldCache /\ [][NextFilter]_vars

(***************************************************************************)
(* SpecFallback: getWithV1Fallback is called on a client whose base URL    *)
(* names the v2 API, the v1 API or neither, and every attempt may fail in  *)
(* every way.                                                              *)
(***************************************************************************)
BaseURLs ==
    {<<"https://api.pipedrive.com", "/v2">>,
     <<"https://api.pipedrive.com", "/v1">>,
     <<"https://proxy.example", "/v2", "/pipedrive", "/v2">>,
     <<"https://proxy.example">>}

Paths == {"/activities", "/deals", "/stages"}

Params(cursor, start, limit) == [cursor |-> cursor, start |-> start, limit |-> limit]

ParamForms ==
    {<<>>} \cup
    {<<Params(c, Undefined, Num(100))>> :
        c \in {Undefined, Text("0"), Text("50"), Text(""), Text("abc")}}

InitFallback ==
    /\ \E baseURL \in BaseURLs, path \in Paths, params \in ParamForms :
          fb = [IdleFallback EXCEPT !.pc = "ready", !.baseURL = baseURL,
                                    !.path = path, !.params = params]
    /\ NoFilters
    /\ OtherIdle
    /\ NoVersioned
    /\ NoGetters
    /\ NoTool

NextFallback ==
    \/ FallbackStart
    \/ FirstResponse
    \/ FirstFailure
    \/ RetryResponse
    \/ RetryFailure

SpecFallback == InitFallback /\ [][NextFallback]_vars

(***************************************************************************)
(* SpecVersioned: one paged fetch whose every page request is served by    *)
(* the v2 API or, after a 404, by the v1 API, against collections that     *)
(* need up to three pages.                                                 *)
(***************************************************************************)
VersionedLimits == {0, 1, DigestLimit, MaxLimit}

VersionedSizes == {0, SourceSize, MaxLimit}

InitVersioned ==
    /\ \E limit \in VersionedLimits, size \in VersionedSizes :
          vp = [IdleVersioned EXCEPT !.fetch = [IdleFetch EXCEPT !.pc = "ready",
                                                                 !.filterId = 1,
                                                                 !.limit = limit],
                                     !.size = size]
    /\ NoFilters
    /\ NoFallback
    /\ OtherIdle
    /\ NoGetters
    /\ NoTool

NextVersioned == VersionedStart \/ V2Page \/ V2Failure \/ V1Page \/ V1Failure

SpecVersioned == InitVersioned /\ [][NextVersioned]_vars

(***************************************************************************)
(* SpecGetters: one call of getPerson, getOrganization or getStage, against*)
(* API versions that may answer with or without the entity or fail.        *)
(***************************************************************************)
GetterIds == {1, MaxFields}

InitGetters ==
    /\ \E kind \in GetterKinds, id \in GetterIds :
          ge = [IdleGetters EXCEPT !.pc = "ready", !.kind = kind, !.id = id]
    /\ NoFilters
    /\ NoFallback
    /\ OtherIdle
    /\ NoVersioned
    /\ NoTool

NextGetters == GetStart \/ GetResponse \/ GetV2Failure \/ GetV1Failure

SpecGetters == InitGetters /\ [][NextGetters]_vars

(***************************************************************************)
(* SpecTool: one call of the miinta.sales_queue.get tool with or without   *)
(* its filters object, filters given by id or by name, and a limit for the *)
(* overdue section; every request of the call may fail.                    *)
(***************************************************************************)
OverdueValues ==
    {Undefined, Num(0), Num(11), Text("OVERDUE"), Text("today"), Text("Ghost")}

TodayValues == {Num(12), Text("Overdue")}

MissingValues == {Num(13), Text("STALLED")}

LimitValues == {Num(0), Num(1), Num(MaxToolLimit), Num(MaxToolLimit + 1), Num(-1)}

LimitForms ==
    {<<>>} \cup {<<[s \in Streams |-> IF s = "overdue" THEN v ELSE Undefined]>> :
                   v \in LimitValues}

ToolArgs ==
    {<<>>, <<[filters |-> <<>>, limits |-> <<>>]>>}
       \cup {<<[filters |-> <<[s \in Streams |->
                                 IF s = "overdue" THEN a
                                 ELSE IF s = "today" THEN b ELSE c]>>,
               limits |-> l]>> :
               a \in OverdueValues, b \in TodayValues, c \in MissingValues,
               l \in LimitForms}

InitTool ==
    /\ \E args \in ToolArgs : tl = [IdleTool EXCEPT !.pc = "ready", !.args = args]
    /\ fetch = [s \in Streams |-> IdleFetch]
    /\ upstream = [s \in Streams |->
                     [wild |-> FALSE, size |-> IF s = "overdue" THEN SourceSize ELSE 0]]
    /\ bulk = [t \in EntityTypes |-> IdleBulk]
    /\ registry = [t \in EntityTypes |-> [wild |-> FALSE]]
    /\ NoDigest
    /\ NoEnrich
    /\ NoLoads
    /\ NoFilters
    /\ NoFallback
    /\ NoVersioned
    /\ NoGetters

NextTool ==
    \/ ToolStart
    \/ \E s \in Streams : FiltersResponse(s) \/ FiltersFailure(s)
    \/ ToolSettle
    \/ DigestStart
    \/ StagesResponse
    \/ StagesFailure
    \/ \E s \in Streams : PageResponse(s) \/ PageFailure(s)
    \/ \E t \in EntityTypes : BatchResponse(t) \/ BatchFailure(t)

SpecTool == InitTool /\ [][NextTool]_vars

(***************************************************************************)
(* Properties of the paged fetch (checked under SpecPaged).                *)
(***************************************************************************)
IsPrefix(p, s) == Len(p) <= Len(s) /\ p = SubSeq(s, 1, Len(p))

CeilDiv(a, b) == (a + b - 1) \div b

Returned(s) == fetch[s].pc = "returned"

\* C1: a paged fetch returns at most `limit` items, and what it returns is a
\* prefix of the concatenation of the pages in the order they were received.
C1_AtMostLimitPrefix ==
    \A s \in Streams :
        Returned(s) =>
            /\ Len(fetch[s].result) <= fetch[s].limit
            /\ IsPrefix(fetch[s].result, fetch[s].received)

\* A fetch returned after a final over-full page, which it truncated.
C1_Witness ==
    \E s \in Streams :
        /\ Returned(s)
        /\ fetch[s].limit > 0
        /\ Len(fetch[s].resps) >= 2
        /\ Len(fetch[s].received) > fetch[s].limit
        /\ Len(fetch[s].result) = fetch[s].limit

\* C2: the first page request carries no cursor and every later one carries
\* exactly the next_cursor of the response immediately before it.
C2_CursorChain ==
    \A s \in Streams :
        /\ Len(fetch[s].resps) \in {Len(fetch[s].calls), Len(fetch[s].calls) - 1}
        /\ \A i \in 1..Len(fetch[s].calls) :
              fetch[s].calls[i].cursor =
                  IF i = 1 THEN NoCursor ELSE fetch[s].resps[i - 1].next

\* Three page requests were issued, the second and third with different
\* cursors, each the one returned just before.
C2_Witness ==
    \E s \in Streams :
        /\ Len(fetch[s].calls) = 3
        /\ fetch[s].calls[2].cursor # NoCursor
        /\ fetch[s].calls[3].cursor # fetch[s].calls[2].cursor
        /\ fetch[s].calls[3].cursor = fetch[s].resps[2].next

\* C3: a response without next cursor is the last one: no request follows
\* it, and the fetch has returned (not failed) with the items accumulated so
\* far, even when they are fewer than `limit`.
C3_StopsWithoutCursor ==
    \A s \in Streams :
        \A i \in 1..Len(fetch[s].resps) :
            fetch[s].resps[i].next = NoCursor =>
                /\ i = Len(fetch[s].resps)
                /\ Len(fetch[s].calls) = i
                /\ Returned(s)
                /\ fetch[s].result = Slice0(fetch[s].received, fetch[s].limit)

\* limit = 50 against a source exhausted after 30 items: 30 items, one call.
C3_Witness ==
    \E s \in Streams :
        /\ Returned(s)
        /\ fetch[s].limit = 50
        /\ Len(fetch[s].calls) = 1
        /\ fetch[s].resps[1].next = NoCursor
        /\ Len(fetch[s].result) = 30

AllPagesFullWithCursor(f) ==
    \A i \in 1..Len(f.resps) :
        f.resps[i].n = f.calls[i].limit /\ f.resps[i].next # NoCursor

\* C4: when every page holds exactly the requested number of items and a
\* next cursor, the fetch makes ceil(limit/100) requests and returns exactly
\* `limit` items.
C4_CallCount ==
    \A s \in Streams :
        (Returned(s) /\ AllPagesFullWithCursor(fetch[s])) =>
            /\ Len(fetch[s].calls) = CeilDiv(fetch[s].limit, MaxPageSize)
            /\ Len(fetch[s].result) = fetch[s].limit

\* limit = 250: 250 items in 3 calls.
C4_Witness ==
    \E s \in Streams :
        /\ Returned(s)
        /\ AllPagesFullWithCursor(fetch[s])
        /\ fetch[s].limit = 250
        /\ Len(fetch[s].calls) = 3
        /\ Len(fetch[s].result) = 250

(***************************************************************************)
(* Properties of the bulk fetch (checked under SpecBulk).                  *)
(***************************************************************************)
RECURSIVE Flatten(_)
Flatten(ss) == IF ss = <<>> THEN <<>> ELSE Head(ss) \o Flatten(Tail(ss))

BulkReturned(t) == bulk[t].pc = "returned"

\* C5: the identifiers are requested in consecutive batches of at most 100,
\* in input order, one request per batch, and once the fetch has returned
\* every identifier was in exactly one batch.
C5_ConsecutiveBatches ==
    \A t \in EntityTypes :
        LET b == bulk[t]
        IN  /\ IsPrefix(Flatten(b.batches), b.ids)
            /\ \A j \in 1..Len(b.batches) :
                  /\ Len(b.batches[j]) \in 1..BulkBatchSize
                  /\ j < Len(b.batches) => Len(b.batches[j]) = BulkBatchSize
            /\ Len(b.batches) - Len(b.outcomes) \in {0, 1}
            /\ BulkReturned(t) =>
                  /\ Flatten(b.batches) = b.ids
                  /\ Len(b.outcomes) = Len(b.batches)
                  /\ Len(b.batches) = CeilDiv(Len(b.ids), BulkBatchSize)
                  /\ \A j, h \in 1..Len(b.batches) :
                        j < h => Range(b.batches[j]) \cap Range(b.batches[h]) = {}
                  /\ UNION {Range(b.batches[j]) : j \in 1..Len(b.batches)} = Range(b.ids)

\* 250 identifiers were requested in batches of 100, 100 and 50.
C5_Witness ==
    \E t \in EntityTypes :
        /\ BulkReturned(t)
        /\ Len(bulk[t].ids) = 250
        /\ Len(bulk[t].batches) = 3
        /\ Len(bulk[t].batches[1]) = 100
        /\ Len(bulk[t].batches[2]) = 100
        /\ Len(bulk[t].batches[3]) = 50

\* The entities the answered batches listed.
Listed(b) ==
    UNION {Range(b.outcomes[j][2]) : j \in 1..Len(b.outcomes)}

FailedBatches(b) == {j \in 1..Len(b.outcomes) : b.outcomes[j][1] = "failed"}

\* C6: a failed batch does not fail the bulk fetch: the batches after it
\* are still requested, and the map returned holds exactly the entities the
\* answered batches listed, each under its own id, and nothing of a failed
\* batch.
C6_FailedBatchAbsorbed ==
    \A t \in EntityTypes :
        LET b == bulk[t]
        IN  /\ b.pc # "failed"
            /\ \A j \in FailedBatches(b) :
                  j < CeilDiv(Len(b.ids), BulkBatchSize) => Len(b.batches) > j
            /\ BulkReturned(t) =>
                  /\ Len(b.batches) = CeilDiv(Len(b.ids), BulkBatchSize)
                  /\ DOMAIN b.map = {e.id : e \in Listed(b)}
                  /\ \A k \in DOMAIN b.map : b.map[k].id = k
                  /\ Range(b.map) = Listed(b)
                  /\ \A j \in FailedBatches(b) :
                        Range(b.batches[j]) \cap DOMAIN b.map = {}

\* Of three batches the second failed; the map holds the 150 entities of
\* the first and the third.
C6_Witness ==
    \E t \in EntityTypes :
        /\ BulkReturned(t)
        /\ Len(bulk[t].batches) = 3
        /\ FailedBatches(bulk[t]) = {2}
        /\ DOMAIN bulk[t].map = Range(bulk[t].batches[1]) \cup Range(bulk[t].batches[3])
        /\ Cardinality(DOMAIN bulk[t].map) = 150

\* C7: a bulk fetch of no identifiers returns an empty map and requests
\* nothing.
C7_EmptyIdsNoRequest ==
    \A t \in EntityTypes :
        (bulk[t].pc \notin {"idle", "ready"} /\ bulk[t].ids = <<>>) =>
            /\ BulkReturned(t)
            /\ bulk[t].map = EmptyMap
            /\ bulk[t].batches = <<>>

\* A bulk fetch was called with no identifiers and has returned.
C7_Witness ==
    \E t \in EntityTypes :
        /\ BulkReturned(t)
        /\ bulk[t].ids = <<>>
        /\ bulk[t].map = EmptyMap
        /\ bulk[t].outcomes = <<>>

(***************************************************************************)
(* The digest build.                                                       *)
(***************************************************************************)
\* The distinct identifiers of entity type t the fetched records reference.
DistinctRefs(t) == Range(Referenced(fetch, t)) \ {0}

\* The identifiers the bulk requests of entity type t carried so far.
Requested(t) == UNION {Range(bulk[t].batches[j]) : j \in DOMAIN bulk[t].batches}

\* C8: in a digest build with enrichment, the bulk requests of each entity
\* type carry only identifiers the fetched records reference, no identifier
\* is carried twice (neither within a request nor by two requests), once the
\* bulk fetch has returned every referenced identifier was carried, and the
\* number of requests is ceil(distinct identifiers / 100); a build without
\* enrichment issues no bulk request.
C8_OneBulkRequestPerId ==
    /\ dg.pc \in {"bulk", "returned"} /\ dg.include =>
          \A t \in EntityTypes :
             LET b == bulk[t]
             IN  /\ Requested(t) \subseteq DistinctRefs(t)
                 /\ \A j \in DOMAIN b.batches :
                       /\ Len(b.batches[j]) <= BulkBatchSize
                       /\ Cardinality(Range(b.batches[j])) = Len(b.batches[j])
                       /\ \A h \in DOMAIN b.batches :
                             j < h => Range(b.batches[j]) \cap Range(b.batches[h]) = {}
                 /\ b.pc = "returned" =>
                       /\ Requested(t) = DistinctRefs(t)
                       /\ Len(b.batches) = CeilDiv(Cardinality(DistinctRefs(t)), BulkBatchSize)
    /\ ~dg.include => \A t \in EntityTypes : bulk[t] = IdleBulk

\* A build with enrichment has returned; the fetched records reference the
\* same person more than once and more than 100 distinct persons, which two
\* requests carried.
C8_Witness ==
    /\ dg.pc = "returned"
    /\ dg.include
    /\ Len(AllTruthy(Referenced(fetch, "person"))) > Cardinality(DistinctRefs("person"))
    /\ Cardinality(DistinctRefs("person")) > BulkBatchSize
    /\ Len(bulk["person"].batches) = 2
    /\ bulk["deal"].pc = "returned" /\ Len(bulk["deal"].batches) = 1

\* C9: once a page request of a primary fetch has failed, the build has
\* failed: it returns no digest and no bulk request is issued.
C9_PageFailureIsFatal ==
    (\E s \in Streams : fetch[s].pc = "failed") =>
        /\ dg.pc = "failed"
        /\ dg.out = <<>>
        /\ \A t \in EntityTypes : bulk[t] = IdleBulk

\* The second page request of one fetch failed after another fetch had
\* returned records.
C9_Witness ==
    /\ dg.pc = "failed"
    /\ \E s \in Streams : fetch[s].pc = "failed" /\ Len(fetch[s].calls) = 2
    /\ \E s \in Streams : fetch[s].pc = "returned" /\ fetch[s].result # <<>>

\* The identifier of the sub-object `o` of an output item, 0 when absent.
RefOf(o, field) == IF o = <<>> THEN 0 ELSE o[1][field]

\* Every fetched activity appears in its section, in order, with the
\* references it carries.
ActivitiesListed(items, records) ==
    /\ Len(items) = Len(records)
    /\ \A j \in DOMAIN records :
          /\ items[j].activity_id = records[j].id
          /\ RefOf(items[j].deal, "deal_id") = records[j].deal_id
          /\ RefOf(items[j].person, "id") = records[j].person_id
          /\ RefOf(items[j].org, "id") = records[j].org_id

\* Every fetched deal appears in its section, in order, with the references
\* it carries.
DealsListed(items, records) ==
    /\ Len(items) = Len(records)
    /\ \A j \in DOMAIN records :
          /\ items[j].deal_id = records[j].id
          /\ items[j].title = records[j].title
          /\ items[j].stage_id = records[j].stage_id
          /\ RefOf(items[j].person, "id") = records[j].person_id
          /\ RefOf(items[j].org, "id") = records[j].org_id

\* Enrichment data appears only for the entities a bulk response delivered.
OnlyDeliveredData(items) ==
    \A j \in DOMAIN items :
       /\ items[j].person # <<>> /\ items[j].person[1].email # <<>> =>
             items[j].person[1].id \in DOMAIN bulk["person"].map
       /\ items[j].deal # <<>> /\ items[j].deal[1].stage_id # 0 =>
             items[j].deal[1].deal_id \in DOMAIN bulk["deal"].map

\* C10: once the three primary fetches have returned, the build never
\* fails: it is waiting for a bulk response or has returned a digest, and
\* the digest lists every fetched activity and deal in its section whatever
\* batches failed, a failed batch leaving only enrichment data out.
C10_BatchFailuresAbsorbed ==
    (\A s \in Streams : fetch[s].pc = "returned") =>
        /\ dg.pc \in {"bulk", "returned"}
        /\ dg.pc = "bulk" => \E t \in EntityTypes : bulk[t].pc = "await"
        /\ dg.pc = "returned" =>
              /\ dg.out # <<>>
              /\ ActivitiesListed(dg.out[1].sections.overdue, Fetched(fetch, "overdue"))
              /\ ActivitiesListed(dg.out[1].sections.due_today, Fetched(fetch, "today"))
              /\ DealsListed(dg.out[1].sections.missing_next_action,
                             Fetched(fetch, "missing"))
              /\ OnlyDeliveredData(dg.out[1].sections.overdue)
              /\ OnlyDeliveredData(dg.out[1].sections.due_today)
              /\ dg.out[1].stats.overdue_count = Len(fetch["overdue"].result)
              /\ dg.out[1].stats.due_today_count = Len(fetch["today"].result)
              /\ dg.out[1].stats.missing_next_action_count = Len(fetch["missing"].result)

\* A digest was returned although every batch of every bulk fetch failed,
\* one fetch having made two requests; all three sections hold records.
C10_Witness ==
    /\ dg.pc = "returned"
    /\ \A t \in EntityTypes :
          bulk[t].errors > 0 /\ bulk[t].errors = Len(bulk[t].batches)
    /\ bulk["person"].errors = 2
    /\ Len(dg.out[1].sections.overdue) > MaxPageSize
    /\ dg.out[1].sections.due_today # <<>>
    /\ dg.out[1].sections.missing_next_action # <<>>

\* C11: the phases of a build never overlap.  A page request has been
\* issued only once the stage table is resolved; a bulk request has been
\* issued only once all three primary fetches have returned; an output
\* record exists only once every bulk fetch has returned, and nothing is
\* requested afterwards.
C11_PhasesInOrder ==
    /\ (\E s \in Streams : fetch[s].calls # <<>>) =>
          /\ dg.pc \notin {"ready", "stages"}
          /\ dg.stagesMap = StagesMapOf(StageList)
    /\ dg.pc \in {"ready", "stages"} => \A s \in Streams : fetch[s] = IdleFetch
    /\ (\E t \in EntityTypes : bulk[t].batches # <<>>) =>
          \A s \in Streams : fetch[s].pc = "returned"
    /\ dg.pc = "primary" => \A t \in EntityTypes : bulk[t] = IdleBulk
    /\ dg.out # <<>> =>
          /\ \A s \in Streams : fetch[s].pc = "returned"
          /\ \A t \in EntityTypes : bulk[t].pc \in {"idle", "returned"}
    /\ dg.pc = "bulk" => dg.out = <<>>

\* A build with enrichment has returned after every primary fetch made two
\* page requests and every bulk fetch made a request.
C11_Witness ==
    /\ dg.pc = "returned"
    /\ dg.out # <<>>
    /\ \A s \in Streams : Len(fetch[s].calls) = 2
    /\ \A t \in EntityTypes : bulk[t].batches # <<>>

\* The e-mail of an item's person and the stage of an item's deal are the
\* values enrichActivity writes when it finds no data.
NoDataFound(items) ==
    \A j \in DOMAIN items :
       /\ items[j].person # <<>> => items[j].person[1].email = <<>>
       /\ items[j].deal # <<>> =>
             items[j].deal[1].stage_id = 0 /\ items[j].deal[1].stage_name = <<>>

\* C12: a build with includePeopleOrgs = false issues no bulk request, and
\* once its three primary fetches have returned it has returned a digest
\* that lists every fetched record, with the values of an empty person,
\* organization and deal map.
C12_NoBulkWithoutFlag ==
    ~dg.include =>
        /\ \A t \in EntityTypes : bulk[t].batches = <<>> /\ bulk[t].pc = "idle"
        /\ (\A s \in Streams : fetch[s].pc = "returned") =>
              /\ dg.pc = "returned"
              /\ dg.out # <<>>
              /\ ActivitiesListed(dg.out[1].sections.overdue, Fetched(fetch, "overdue"))
              /\ ActivitiesListed(dg.out[1].sections.due_today, Fetched(fetch, "today"))
              /\ DealsListed(dg.out[1].sections.missing_next_action,
                             Fetched(fetch, "missing"))
              /\ NoDataFound(dg.out[1].sections.overdue)
              /\ NoDataFound(dg.out[1].sections.due_today)

\* A build without enrichment has returned a digest of more than 100
\* overdue activities that reference persons and deals.
C12_Witness ==
    /\ ~dg.include
    /\ dg.pc = "returned"
    /\ Len(dg.out[1].sections.overdue) > MaxPageSize
    /\ \E j \in DOMAIN dg.out[1].sections.overdue :
          /\ dg.out[1].sections.overdue[j].person # <<>>
          /\ dg.out[1].sections.overdue[j].deal # <<>>
    /\ dg.out[1].sections.missing_next_action # <<>>

\* The identifiers of the items the upstream returned on stream s, in the
\* order it returned them, cut at the limit.
UpstreamIds(s) ==
    LET got == fetch[s].received
        n   == Min(Len(got), fetch[s].limit)
    IN  [j \in 1..n |-> IF s = "today" THEN 1000 + got[j] ELSE got[j]]

\* C13: every digest returned lists, in each section, one record per fetched
\* record in the order the upstream returned them; each count equals the
\* length of its section and is at most the section's limit; filter_ids
\* echoes the three filter identifiers of the call.
C13_DigestShape ==
    dg.pc = "returned" =>
        LET o == dg.out[1]
        IN  /\ [j \in DOMAIN o.sections.overdue |-> o.sections.overdue[j].activity_id]
                  = UpstreamIds("overdue")
            /\ [j \in DOMAIN o.sections.due_today |-> o.sections.due_today[j].activity_id]
                  = UpstreamIds("today")
            /\ [j \in DOMAIN o.sections.missing_next_action |->
                   o.sections.missing_next_action[j].deal_id] = UpstreamIds("missing")
            /\ o.stats.overdue_count = Len(o.sections.overdue)
            /\ o.stats.due_today_count = Len(o.sections.due_today)
            /\ o.stats.missing_next_action_count = Len(o.sections.missing_next_action)
            /\ o.stats.overdue_count <= dg.limits["overdue"]
            /\ o.stats.due_today_count <= dg.limits["today"]
            /\ o.stats.missing_next_action_count <= dg.limits["missing"]
            /\ o.filter_ids.overdue_activities_filter_id = dg.filters["overdue"]
            /\ o.filter_ids.today_activities_filter_id = dg.filters["today"]
            /\ o.filter_ids.missing_next_action_deals_filter_id = dg.filters["missing"]

\* A digest was returned with a section cut at its limit of 1, a section of
\* more than 100 records and an empty section.
C13_Witness ==
    /\ dg.pc = "returned"
    /\ dg.limits["overdue"] = 1 /\ dg.out[1].stats.overdue_count = 1
    /\ Len(fetch["overdue"].received) = 1
    /\ dg.out[1].stats.due_today_count > MaxPageSize
    /\ dg.out[1].stats.missing_next_action_count = 0

(***************************************************************************)
(* enrichActivity and enrichDeal.                                          *)
(***************************************************************************)
EnrichedActivity == en.pc = "done" /\ en.kind = "activity"

EnrichedDeal == en.pc = "done" /\ en.kind = "deal"

\* C14: days_overdue is the number of days from the due day to the day of
\* `now` when the due day is strictly earlier, and is absent when the due
\* day is the day of `now` or later, whatever the time of day of `now`.
C14_DaysOverdue ==
    EnrichedActivity =>
        en.out[1].days_overdue =
            IF en.raw.due_date < en.now.day
            THEN <<en.now.day - en.raw.due_date>>
            ELSE <<>>

\* An activity due two days before a `now` that is not at midnight got
\* days_overdue = 2.
C14_Witness ==
    /\ EnrichedActivity
    /\ en.now.tod > 0
    /\ en.raw.due_date + 2 = en.now.day
    /\ en.out[1].days_overdue = <<2>>

\* The name the claim C15 describes: the record's own, else the fetched
\* entity's, else the default.
ClaimedName(own, fetched, default) ==
    IF own # <<>> THEN own ELSE IF fetched # <<>> THEN fetched ELSE default

FetchedName(map, id, field) == IF id \in DOMAIN map THEN map[id][field] ELSE <<>>

\* C15: the name of every deal, person and organization sub-object is the
\* record's own name when non-empty, otherwise the name of the fetched
\* entity with that id, otherwise "Unknown" (person, organization) or the
\* empty string (deal title).
C15_NameFallback ==
    /\ EnrichedActivity =>
          LET a == NormalizeActivity(en.raw)
              o == en.out[1]
          IN  /\ o.deal # <<>> =>
                    o.deal[1].title =
                        ClaimedName(a.deal_title, FetchedName(en.deals, a.deal_id, "title"), <<>>)
              /\ o.person # <<>> =>
                    o.person[1].name =
                        ClaimedName(a.person_name, FetchedName(en.persons, a.person_id, "name"),
                                    <<"Unknown">>)
              /\ o.org # <<>> =>
                    o.org[1].name =
                        ClaimedName(a.org_name, FetchedName(en.orgs, a.org_id, "name"),
                                    <<"Unknown">>)
    /\ EnrichedDeal =>
          LET d == NormalizeDeal(en.raw)
              o == en.out[1]
          IN  /\ o.person # <<>> =>
                    o.person[1].name =
                        ClaimedName(d.person_name, FetchedName(en.persons, d.person_id, "name"),
                                    <<"Unknown">>)
              /\ o.org # <<>> =>
                    o.org[1].name =
                        ClaimedName(d.org_name, FetchedName(en.orgs, d.org_id, "name"),
                                    <<"Unknown">>)

\* The identifier a raw reference carries, 0 when it carries none.
Carried(ref) == IF ref[1] \in {"num", "obj"} THEN ref[2] ELSE 0

\* The sub-object is absent when the reference carries no identifier, and
\* present with the identifier otherwise.
SubObjectFor(sub, ref, field) ==
    IF Carried(ref) = 0 THEN sub = <<>>
    ELSE sub # <<>> /\ sub[1][field] = Carried(ref)

TableName(id) ==
    IF \E j \in DOMAIN StageList : StageList[j].id = id
    THEN StageList[CHOOSE j \in DOMAIN StageList : StageList[j].id = id].name
    ELSE <<"Stage", id>>

\* C17 as stated: every stage_name, of a deal record and of the deal
\* sub-object of an activity record, is the table's name for the stage id
\* or "Stage {id}".
C17_StageNameAsStated ==
    /\ EnrichedDeal => en.out[1].stage_name = TableName(en.out[1].stage_id)
    /\ EnrichedActivity /\ en.out[1].deal # <<>> =>
          en.out[1].deal[1].stage_name = TableName(en.out[1].deal[1].stage_id)

\* C17: the stage_name of a deal record is the table's name for the deal's
\* stage id or "Stage {id}"; the deal sub-object of an activity has the
\* stage id of the bulk-fetched deal and its stage_name by the same rule,
\* and without a fetched deal it has stage id 0 and the empty stage_name.
C17_StageName ==
    /\ EnrichedDeal =>
          /\ en.out[1].stage_id = en.raw.stage_id
          /\ en.out[1].stage_name = TableName(en.raw.stage_id)
    /\ EnrichedActivity /\ en.out[1].deal # <<>> =>
          LET sub == en.out[1].deal[1]
          IN  IF sub.deal_id \in DOMAIN en.deals
              THEN /\ sub.stage_id = en.deals[sub.deal_id].stage_id
                   /\ sub.stage_name = TableName(sub.stage_id)
              ELSE /\ sub.stage_id = 0
                   /\ sub.stage_name = <<>>

\* An activity whose fetched deal is in a stage the table lacks got the
\* placeholder.
C17_Witness ==
    /\ EnrichedActivity
    /\ en.out[1].deal # <<>>
    /\ en.out[1].deal[1].stage_id = 3
    /\ en.out[1].deal[1].stage_name = <<"Stage", 3>>

Present(v) == v[1] \notin {"undefined", "null"}

\* The value the claim C18 describes: the source value, or null.
OrNull(v) == IF Present(v) THEN v ELSE Null

\* C18 as stated: each pass-through field of a deal record carries the
\* source deal's value when present and null when absent.
C18_PassThroughAsStated ==
    EnrichedDeal =>
        /\ en.out[1].owner_id = OrNull(en.raw.owner_id)
        /\ en.out[1].undone_activities_count = OrNull(en.raw.undone_activities_count)
        /\ en.out[1].next_activity_id = OrNull(en.raw.next_activity_id)
        /\ en.out[1].last_outgoing_mail_time = OrNull(en.raw.last_outgoing_mail_time)
        /\ en.out[1].last_incoming_mail_time = OrNull(en.raw.last_incoming_mail_time)

\* An identifier field: the non-zero identifier the source carries, as a
\* number, else `absent`.
IdOr(ref, absent) == IF Carried(ref) # 0 THEN <<"num", Carried(ref)>> ELSE absent

\* A time field: the source's non-empty string, else null.
TimeOrNull(v) == IF v[1] = "str" /\ v[2] # <<>> THEN v ELSE Null

\* C18: owner_id carries the source's non-zero owner identifier and is
\* undefined otherwise; undone_activities_count carries the source value
\* unchanged, undefined included; next_activity_id carries the source's
\* non-zero identifier and is null otherwise; the two mail times carry the
\* source's non-empty string and are null otherwise.
C18_PassThrough ==
    EnrichedDeal =>
        /\ en.out[1].owner_id = IdOr(en.raw.owner_id, Undefined)
        /\ en.out[1].undone_activities_count = en.raw.undone_activities_count
        /\ en.out[1].next_activity_id = IdOr(en.raw.next_activity_id, Null)
        /\ en.out[1].last_outgoing_mail_time = TimeOrNull(en.raw.last_outgoing_mail_time)
        /\ en.out[1].last_incoming_mail_time = TimeOrNull(en.raw.last_incoming_mail_time)

\* A deal without owner, count and times and with next activity 0 got
\* undefined for owner and count and null for the other three.
C18_Witness ==
    /\ EnrichedDeal
    /\ en.raw.owner_id = Undefined
    /\ en.raw.undone_activities_count = Undefined
    /\ en.raw.next_activity_id = <<"num", 0>>
    /\ en.out[1].owner_id = Undefined
    /\ en.out[1].undone_activities_count = Undefined
    /\ en.out[1].next_activity_id = Null
    /\ en.out[1].last_incoming_mail_time = Null

(***************************************************************************)
(* loadStages and the cache.                                               *)
(***************************************************************************)
\* The positions of the history at which a stage list was stored.
Stores(log) == {i \in DOMAIN log : log[i].type = "store"}

LastStore(log) == CHOOSE i \in Stores(log) : \A h \in Stores(log) : h <= i

\* At position j of the history some list stored earlier has not expired.
Fresh(log, j) ==
    \E i \in Stores(log) : i < j /\ log[j].at < log[i].at + CacheTTL

\* C19: a loadStages call requests the stage list exactly when no list
\* stored earlier is unexpired at that time: a call made before the expiry
\* of a stored list is served from the cache, and a call made at or after
\* the expiry of every stored list requests the list again; the entry a
\* load stores expires a time to live after the load.
C19_StagesCalledWhenExpired ==
    /\ \A j \in DOMAIN ld.log :
          /\ ld.log[j].type = "call" => ~Fresh(ld.log, j)
          /\ ld.log[j].type = "hit" => Fresh(ld.log, j)
    /\ Stores(ld.log) # {} =>
          /\ "stages_all" \in DOMAIN cache
          /\ cache["stages_all"].expiresAt = ld.log[LastStore(ld.log)].at + CacheTTL

\* A list was stored, a later call before its expiry was served from the
\* cache, a call at the moment of expiry requested the list again, and the
\* list was stored anew.
C19_Witness ==
    \E i, j, k, l \in DOMAIN ld.log :
       /\ i < j /\ j < k /\ k < l
       /\ ld.log[i].type = "store"
       /\ ld.log[j].type = "hit" /\ ld.log[j].at = ld.log[i].at + CacheTTL - 1
       /\ ld.log[k].type = "call" /\ ld.log[k].at = ld.log[i].at + CacheTTL
       /\ ld.log[l].type = "store" /\ ld.log[l].at = ld.log[k].at
       /\ cache["stages_all"].expiresAt = ld.log[k].at + CacheTTL

\* The table maps exactly the stages of the list, each to its name.
TableOf(map, list) ==
    /\ DOMAIN map = {list[j].id : j \in DOMAIN list}
    /\ \A j \in DOMAIN list : map[list[j].id] = list[j].name

\* The last list build b received or read.
OwnList(b) ==
    LET mine == {i \in DOMAIN ld.log :
                    ld.log[i].build = b /\ ld.log[i].type \in {"store", "hit"}}
    IN  ld.log[CHOOSE i \in mine : \A h \in mine : h <= i].value

\* C20: whatever the interleaving of two builds, the cache holds the list
\* stored last, every read of the cache yields nothing or a complete stage
\* list, and a build that has its table has the complete table of the list
\* it received or read itself.
C20_LastWriteWins ==
    /\ IF Stores(ld.log) = {} THEN cache = EmptyMap
       ELSE cache["stages_all"].value = ld.log[LastStore(ld.log)].value
    /\ CachedStages(cache, clock) \in {<<>>} \cup {<<list>> : list \in StageLists}
    /\ \A j \in DOMAIN ld.log : ld.log[j].type = "hit" => ld.log[j].value \in StageLists
    /\ \A b \in Builds :
          ld.load[b].pc = "done" => TableOf(ld.load[b].stagesMap, OwnList(b))

\* Both builds requested the stage list on the cold cache before either was
\* answered, and received different lists: the cache holds the one stored
\* last, and each build has the table of its own list.
C20_Witness ==
    /\ Len(ld.log) = 4
    /\ ld.log[1].type = "call" /\ ld.log[2].type = "call"
    /\ ld.log[1].build # ld.log[2].build
    /\ ld.log[3].type = "store" /\ ld.log[4].type = "store"
    /\ ld.log[3].value # ld.log[4].value
    /\ cache["stages_all"].value = ld.log[4].value
    /\ \A b \in Builds : ld.load[b].pc = "done"
    /\ ld.load["A"].stagesMap # ld.load["B"].stagesMap

(***************************************************************************)
(* Properties of filter creation (checked under SpecFilter, SpecResolve    *)
(* and SpecFieldCache).                                                    *)
(***************************************************************************)
\* The position in the log of the caller's current call.
CalledAt(c) ==
    LET js == {j \in DOMAIN cf.log : cf.log[j][1] = "call" /\ cf.log[j][2] = c}
    IN  IF js = {} THEN 0 ELSE CHOOSE j \in js : \A h \in js : h <= j

\* The listing requests the caller's current call has sent.
ListingRequests(c) ==
    {j \in DOMAIN cf.log : j > CalledAt(c) /\ cf.log[j][1] = "fields" /\ cf.log[j][2] = c}

\* A field_id that is a number or a string of digits.
NumericFieldId(f) == f[1] = "num" \/ (f[1] = "text" /\ IsDigits(f[2]))

\* C21: a leaf whose field_id is a number or a string of digits keeps its
\* field_id as given and causes no request for field metadata, whatever its
\* object type: no listing request is in flight while such a leaf is the one
\* being normalized, and a call whose leaves are all of this kind sends none.
C21_NumericFieldIdKept ==
    \A c \in Callers :
       LET call == cf.call[c]
       IN  /\ \A j \in DOMAIN call.done :
                NumericFieldId(call.todo[j].field_id)
                   => call.done[j].field_id = call.todo[j].field_id
           /\ call.pc = "fields"
                 => ~NumericFieldId(call.todo[Len(call.done) + 1].field_id)
           /\ (\A j \in DOMAIN call.todo : NumericFieldId(call.todo[j].field_id))
                 => ListingRequests(c) = {}

C21_Witness ==
    LET call == cf.call["A"]
    IN  /\ call.pc = "done"
        /\ Len(call.done) = 2
        /\ call.todo[1].field_id = Text("12") /\ call.done[1].field_id = Text("12")
        /\ call.done[1].object = Text("deal")
        /\ call.todo[2].field_id = Num(5) /\ call.done[2].field_id = Num(5)
        /\ call.done[2].object = Text("lead")
        /\ ListingRequests("A") = {}

\* The one leaf of the call of SpecResolve, as given and as normalized.
GivenFieldId == cf.call["A"].todo[1].field_id[2]

Listing == cf.remote["deal"]

\* The listing has arrived and the leaf was looked up.
LookedUp == \E j \in DOMAIN cf.log : cf.log[j][1] = "stored"

ResolvedTo(ids) ==
    /\ Len(cf.call["A"].done) = 1
    /\ cf.call["A"].done[1].field_id \in {Text(ToString(id)) : id \in ids}

KeyIs(x) == {f \in Range(Listing) : f.key = Text(x)}

NameIs(x) == {f \in Range(Listing) : f.name = Text(x)}

LowerCasedIs(x) ==
    {f \in Range(Listing) :
        \/ IsText(f.key) /\ ToLowerCase(f.key[2]) = ToLowerCase(x)
        \/ IsText(f.name) /\ ToLowerCase(f.name[2]) = ToLowerCase(x)}

\* The fields the stated order of resolution selects.
Selected(x) ==
    IF KeyIs(x) # {} THEN KeyIs(x)
    ELSE IF NameIs(x) # {} THEN NameIs(x)
    ELSE LowerCasedIs(x)

\* C22: a symbolic field_id resolves to the id of the field whose key equals
\* it exactly if there is one, otherwise to the id of the field whose name
\* equals it exactly, otherwise to the id of a field whose lower-cased key or
\* name equals the lower-cased input; an exact key match is never overridden.
C22_ResolutionOrder ==
    LookedUp /\ Selected(GivenFieldId) # {}
       => ResolvedTo({f.id : f \in Selected(GivenFieldId)})

\* The positions of the listing whose field bears the name x in some letter
\* case.
Bearing(x) ==
    {j \in DOMAIN Listing :
        IsText(Listing[j].name) /\ ToLowerCase(Listing[j].name[2]) = ToLowerCase(x)}

\* No field at another position has a key or a name that is x in some letter
\* case.
OnlyAt(j, x) ==
    \A h \in DOMAIN Listing \ {j} :
       /\ ~(IsText(Listing[h].key) /\ ToLowerCase(Listing[h].key[2]) = ToLowerCase(x))
       /\ ~(IsText(Listing[h].name) /\ ToLowerCase(Listing[h].name[2]) = ToLowerCase(x))

\* C23 as stated: for every listing, a field's name given in any letter case
\* resolves to the id of that field.
C23_AnyCaseAsStated ==
    LookedUp => \A j \in Bearing(GivenFieldId) : ResolvedTo({Listing[j].id})

\* C23: a field's name given in any letter case resolves to the id of that
\* field, provided no other field of the listing has a key or a name equal
\* to the name when letter case is ignored.
C23_AnyCase ==
    LookedUp =>
       \A j \in Bearing(GivenFieldId) :
          OnlyAt(j, GivenFieldId) => ResolvedTo({Listing[j].id})

C23_Witness ==
    /\ cf.call["A"].pc = "post"
    /\ Listing = <<Field(11, Text("owner"), Text("owner")),
                   Field(12, Undefined, Text("Title"))>>
    /\ GivenFieldId = "tItLe"
    /\ ResolvedTo({12})

\* The positions of the log at which the listing of type t was requested, and
\* those at which it arrived and was cached.
RequestedAt(t) == {j \in DOMAIN cf.log : cf.log[j][1] = "fields" /\ cf.log[j][3] = t}

StoredAt(t) == {j \in DOMAIN cf.log : cf.log[j][1] = "stored" /\ cf.log[j][3] = t}

\* C24 as stated: over any sequence or interleaving of createFilter calls the
\* listing of a canonical object type is requested at most once.
C24_AtMostOnceAsStated ==
    \A t \in FieldTypes : \A i, j \in RequestedAt(t) : i = j

\* C24: once the listing of a canonical object type has been fetched
\* successfully it is never requested again, under any synonym of the type;
\* the cached map stays, and requests for one type are repeated only before
\* its first successful fetch.
C24_NoRequestAfterFetch ==
    \A t \in FieldTypes :
       /\ \A i \in StoredAt(t), j \in RequestedAt(t) : j < i
       /\ StoredAt(t) # {} => t \in DOMAIN cf.fieldMapCache

C24_Witness ==
    /\ Len(cf.log) >= 3
    /\ cf.log[2] = <<"fields", "A", "deal">>
    /\ cf.log[3] = <<"stored", "A", "deal">>
    /\ cf.call["B"].pc = "done"
    /\ cf.call["B"].type = " Deal "
    /\ Len(cf.call["B"].done) = 1
    /\ cf.call["B"].done[1].field_id = Text("22")
    /\ ListingRequests("B") = {}

\* Every leaf of a condition tree as given, in the order of the tree: the
\* nodes that carry a field_id, with or without an object.
RECURSIVE AllLeaves(_), AllLeavesFrom(_, _)
AllLeaves(node) ==
    IF node.field_id # Undefined THEN <<node>>
    ELSE IF node.conditions[1] = "arr" THEN AllLeavesFrom(node.conditions[2], 1)
    ELSE <<>>

AllLeavesFrom(children, j) ==
    IF j > Len(children) THEN <<>>
    ELSE AllLeaves(children[j]) \o AllLeavesFrom(children, j + 1)

ListingOf(t) == IF t \in FieldTypes THEN cf.remote[t] ELSE <<>>

\* The leaf has a symbolic field_id that no field of its object type bears.
UnknownField(leaf, defaultObjectType) ==
    /\ leaf.field_id[1] = "text"
    /\ ~IsDigits(leaf.field_id[2])
    /\ LET t == LeafObjectType(leaf, defaultObjectType)
       IN  \A j \in DOMAIN ListingOf(t) :
              \A n \in {ListingOf(t)[j].key, ListingOf(t)[j].name} :
                 ~(IsText(n) /\ ToLowerCase(n[2]) = ToLowerCase(leaf.field_id[2]))

\* The error names the field_id and the object type of the leaf.
NamesLeaf(error, leaf, defaultObjectType) ==
    /\ Len(error) >= 5
    /\ error[3] = leaf.field_id[2]
    /\ error[5] = LeafObjectType(leaf, defaultObjectType)

\* The caller's current call has sent its POST.
Posted(c) ==
    \E j \in DOMAIN cf.log : j > CalledAt(c) /\ cf.log[j][1] = "post" /\ cf.log[j][2] = c

\* C25 as stated: when any leaf of the condition tree has a symbolic field_id
\* that no field of its object type bears, createFilter fails, at the first
\* such leaf in the order of the tree and with an error that names its
\* field_id and object type (or earlier, on a failed listing request); no
\* tree is returned and no POST is sent.
C25_UnknownFieldFailsAsStated ==
    \A c \in Callers :
       LET call == cf.call[c]
           unknown == SelectSeq(AllLeaves(call.conditions),
                                LAMBDA l : UnknownField(l, call.normalizedType))
       IN  call.pc # "idle" /\ unknown # <<>>
              => /\ call.pc \in {"fields", "failed"}
                 /\ ~Posted(c)
                 /\ call.pc = "failed" /\ call.error # <<"api">>
                       => NamesLeaf(call.error, unknown[1], call.normalizedType)

\* C25: when a leaf that the normalizer walks has a symbolic field_id that no
\* field of its object type bears, createFilter fails, at the first such leaf
\* of the walk (AND branch before OR branch, each depth-first) and with an
\* error that names its field_id and object type, unless a listing request
\* fails before; no leaf from it on is normalized and no POST is sent.
C25_UnknownFieldFails ==
    \A c \in Callers :
       LET call == cf.call[c]
           unknown == {j \in DOMAIN call.todo :
                          UnknownField(call.todo[j], call.normalizedType)}
       IN  unknown # {}
              => LET first == CHOOSE j \in unknown : \A h \in unknown : j <= h
                 IN  /\ call.pc \in {"fields", "failed"}
                     /\ Len(call.done) < first
                     /\ ~Posted(c)
                     /\ call.pc = "failed" /\ call.error # <<"api">>
                           => NamesLeaf(call.error, call.todo[first], call.normalizedType)

C25_Witness ==
    LET call == cf.call["A"]
    IN  /\ call.pc = "failed"
        /\ call.type = "People"
        /\ Len(call.todo) = 4
        /\ \A j \in 1..4 : call.todo[j].field_id = Text("ghost")
        /\ AllLeaves(call.conditions)[1].object = Text("Deals")
        /\ call.todo[1].object = Text("")
        /\ call.error = DescribeApiError(UnknownFieldError("ghost", "person"))

\* A { glue, conditions } node with the given glue.
IsGroupOf(node, glue) == node.glue = Text(glue) /\ node.conditions[1] = "arr"

\* C26: whenever normalization succeeds, the tree it yields is a Group whose
\* conditions are exactly two Groups, the first with glue 'and' and the second
\* with glue 'or', and every Leaf in it, at any depth, has a purely numeric
\* field_id and an extra_value, which is null when none was given.
C26_CanonicalShape ==
    \A c \in Callers :
       cf.call[c].body # <<>>
          => LET tree == cf.call[c].body[1].conditions
             IN  /\ IsText(tree.glue)
                 /\ tree.conditions[1] = "arr"
                 /\ Len(tree.conditions[2]) = 2
                 /\ IsGroupOf(tree.conditions[2][1], "and")
                 /\ IsGroupOf(tree.conditions[2][2], "or")
                 /\ \A j \in DOMAIN AllLeaves(tree) :
                       LET leaf == AllLeaves(tree)[j]
                       IN  /\ NumericFieldId(leaf.field_id)
                           /\ leaf.extra_value # Undefined
                           /\ cf.call[c].todo[j].extra_value = Undefined
                                 => leaf.extra_value = Null

C26_Witness ==
    LET call == cf.call["A"]
    IN  /\ call.pc = "done"
        /\ call.type = "deals"
        /\ call.conditions.glue = Undefined
        /\ Len(AllLeaves(call.body[1].conditions)) = 4
        /\ call.todo[1].field_id = Text("Title")
        /\ call.todo[1].extra_value = Undefined
        /\ AllLeaves(call.body[1].conditions)[1].field_id = Text("21")
        /\ AllLeaves(call.body[1].conditions)[1].extra_value = Null
        /\ IsGroupOf(call.body[1].conditions.conditions[2][1].conditions[2][1], "or")

\* C27: normalization is idempotent: normalizing the tree a normalization has
\* produced, under the same default object type, yields an equal tree (and
\* needs no field listing).
C27_Idempotent ==
    \A c \in Callers :
       cf.call[c].again
          => /\ cf.call[c].pc \in {"post", "done", "failed"}
             /\ cf.call[c].body # <<>>
             /\ cf.call[c].body[1].conditions = cf.call[c].conditions

C27_Witness ==
    LET call == cf.call["A"]
    IN  /\ call.again
        /\ call.pc = "done"
        /\ call.type = " Deal "
        /\ call.conditions.glue = Text("or")
        /\ Len(call.done) = 4
        /\ call.done[1].field_id = Text("21")
        /\ IsGroupOf(call.conditions.conditions[2][1].conditions[2][1], "or")
        /\ cf.log[2] = <<"fields", "A", "deal">>
        /\ ListingRequests("A") = {}

\* The children of the root of a tree as given.
RootChildren(conditions) ==
    IF conditions.conditions[1] = "arr" THEN conditions.conditions[2] ELSE <<>>

\* A Leaf as the caller gives it: a node with a field_id and an operator and
\* without children, whether or not it names its object.
GivenLeaf(node) ==
    node.field_id # Undefined /\ node.operator # Undefined /\ node.conditions = Undefined

\* The normalized leaf is the given one with its object made canonical (the
\* default where none is given) and a numeric field_id in place of the given
\* one, kept when it was numeric.
NormalizedFrom(leaf, given, defaultObjectType) ==
    /\ leaf.object = Text(LeafObjectType(given, defaultObjectType))
    /\ leaf.operator = given.operator
    /\ leaf.value = given.value
    /\ NumericFieldId(leaf.field_id)
    /\ NumericFieldId(given.field_id) => leaf.field_id = given.field_id

\* C28: when every child of the root is a Leaf (or the root has no children),
\* the AND group of the result holds exactly those leaves, normalized and in
\* the order given, and its OR group is empty, whatever the root's glue.
C28_FlatShorthand ==
    \A c \in Callers :
       LET call == cf.call[c]
           given == RootChildren(call.conditions)
       IN  call.body # <<>> /\ (\A j \in DOMAIN given : GivenLeaf(given[j]))
              => LET tree == call.body[1].conditions
                     both == tree.conditions[2][1].conditions[2]
                 IN  /\ Len(both) = Len(given)
                     /\ \A j \in DOMAIN given :
                           j <= Len(both)
                              => NormalizedFrom(both[j], given[j], call.normalizedType)
                     /\ tree.conditions[2][2].conditions[2] = <<>>

\* C29: every Leaf of the input whose object is absent appears in the result
\* with the canonical default object type as its object and with its field_id
\* resolved against that type.
C29_DefaultObject ==
    \A c \in Callers :
       LET call == cf.call[c]
           given == AllLeaves(call.conditions)
       IN  call.body # <<>>
              => LET leaves == AllLeaves(call.body[1].conditions)
                 IN  \A j \in DOMAIN given :
                        given[j].object = Undefined /\ GivenLeaf(given[j])
                           => \E k \in DOMAIN leaves :
                                 NormalizedFrom(leaves[k], given[j], call.normalizedType)

(***************************************************************************)
(* Properties of the v1 fallback (checked under SpecFallback).             *)
(***************************************************************************)
Http404 == [axios |-> TRUE, status |-> 404]

\* C30: a request issued against the v2 API is sent again, to the v1 API and
\* exactly once, when and only when the v2 attempt failed with HTTP 404; any
\* other failure of the first attempt reaches the caller without a retry, and
\* so does a failure of the v1 retry.
C30_RetryOnceOn404 ==
    /\ Len(fb.sent) <= 2
    /\ Len(fb.failures) <= Len(fb.sent)
    /\ Len(fb.sent) >= 1 => fb.sent[1].url = fb.baseURL \o <<fb.path>>
    /\ fb.failures # <<>>
          => LET retried == "/v2" \in Range(fb.baseURL) /\ fb.failures[1] = Http404
             IN  /\ retried => /\ Len(fb.sent) = 2
                               /\ "/v1" \in Range(fb.sent[2].url)
                               /\ fb.sent[2].url # fb.sent[1].url
                 /\ ~retried => Len(fb.sent) = 1 /\ fb.pc = "failed"
    /\ fb.pc = "failed" <=> fb.failures # <<>> /\ fb.pc \notin {"retry", "returned"}
    /\ fb.pc = "failed" => fb.error = <<fb.failures[Len(fb.failures)]>>
    /\ fb.pc = "returned" => Len(fb.failures) = Len(fb.sent) - 1

C30_Witness ==
    /\ fb.pc = "failed"
    /\ fb.baseURL = <<"https://api.pipedrive.com", "/v2">>
    /\ fb.failures = <<Http404, [axios |-> TRUE, status |-> 500]>>
    /\ fb.error = <<[axios |-> TRUE, status |-> 500]>>
    /\ Len(fb.sent) = 2
    /\ fb.sent[2].url = <<"https://api.pipedrive.com", "/v1", "/deals">>

(***************************************************************************)
(* Further properties of the paged fetch (checked under SpecPaged).        *)
(***************************************************************************)
\* The number of items the responses before the j-th request delivered.
RECURSIVE DeliveredBefore(_, _)
DeliveredBefore(f, j) ==
    IF j <= 1 THEN 0 ELSE DeliveredBefore(f, j - 1) + f.resps[j - 1].n

\* C36: every page request asks for min(100, limit - accumulated) items, a
\* number between 1 and 100 that never exceeds the number of items still
\* missing; with limit 0 no request is made.
C36_PageSize ==
    \A s \in Streams :
       LET f == fetch[s]
       IN  /\ \A j \in DOMAIN f.calls :
                LET missing == f.limit - DeliveredBefore(f, j)
                IN  /\ f.calls[j].limit = Min(100, missing)
                    /\ 1 <= f.calls[j].limit /\ f.calls[j].limit <= 100
                    /\ f.calls[j].limit <= missing
           /\ f.limit = 0 => f.calls = <<>>

\* limit 250 against short pages: 100, then 100 of the 220 missing, then 100
\* of the 190 missing.
C36_Witness ==
    \E s \in Streams :
       LET f == fetch[s]
       IN  /\ f.limit = 250
           /\ Len(f.calls) = 3
           /\ f.resps[1].n = ShortPage /\ f.resps[2].n = ShortPage
           /\ f.calls[2].limit = 100
           /\ f.calls[3].limit = 100
           /\ DeliveredBefore(f, 3) = 2 * ShortPage

C36_WitnessZero ==
    \E s \in Streams : Returned(s) /\ fetch[s].limit = 0 /\ fetch[s].calls = <<>>

\* Every response received so far that carries a next cursor also carries at
\* least one item.
CursorPagesNonEmpty(f) ==
    \A i \in DOMAIN f.resps : f.resps[i].next # NoCursor => f.resps[i].n >= 1

\* Every response received so far is an empty page with a next cursor.
OnlyEmptyCursorPages(f) ==
    \A i \in DOMAIN f.resps : f.resps[i].n = 0 /\ f.resps[i].next # NoCursor

Ended(f) == f.pc \in {"returned", "failed"}

\* At most `limit` requests as long as pages with a cursor are not empty; an
\* empty page with a cursor is followed by another request, and a fetch
\* that has received nothing else is still waiting.
C38_CallBudget ==
    \A s \in Streams :
       LET f == fetch[s]
       IN  /\ CursorPagesNonEmpty(f) => Len(f.calls) <= f.limit
           /\ \A i \in DOMAIN f.resps :
                (f.resps[i].n = 0 /\ f.resps[i].next # NoCursor) => Len(f.calls) > i
           /\ (f.calls # <<>> /\ OnlyEmptyCursorPages(f) /\ f.pc # "failed") =>
                 /\ f.pc = "await"
                 /\ Len(f.calls) = Len(f.resps) + 1

\* C38: a paged fetch ends after at most `limit` upstream requests provided
\* every response with a next cursor carries at least one item; an empty page
\* with a next cursor does not end the loop, so a fetch that receives only
\* such pages keeps requesting and never returns.
C38_Termination ==
    /\ []C38_CallBudget
    /\ \A s \in Streams :
          (fetch[s].pc = "ready") ~> (Ended(fetch[s]) \/ ~CursorPagesNonEmpty(fetch[s]))

\* A fetch of one item that has already issued more requests than the call
\* budget of the model, each answered by an empty page with a cursor.
C38_Witness ==
    \E s \in Streams :
       LET f == fetch[s]
       IN  /\ f.limit = 1
           /\ Len(f.resps) = MaxCalls
           /\ OnlyEmptyCursorPages(f)
           /\ f.pc = "await"
           /\ Len(f.calls) = MaxCalls + 1

\* A fetch that used its whole budget of `limit` requests and returned.
C38_WitnessBudget ==
    \E s \in Streams :
       LET f == fetch[s]
       IN  /\ f.limit = 2
           /\ Returned(s)
           /\ CursorPagesNonEmpty(f)
           /\ Len(f.calls) = f.limit

(***************************************************************************)
(* Further properties of the root normalization (checked under SpecFilter).*)
(***************************************************************************)
\* The child is a { glue, conditions } node whose glue is `glue` in some
\* spelling.
GivenGroupOf(node, glue) ==
    /\ node.glue[1] = "text"
    /\ ToLowerCase(node.glue[2]) = glue
    /\ node.conditions[1] = "arr"

\* The leaves below the first child of the root that is a group with the
\* glue; none when the root has no such child.
FirstGroupLeaves(given, glue) ==
    LET js == {j \in DOMAIN given : GivenGroupOf(given[j], glue)}
    IN  IF js = {} THEN <<>>
        ELSE AllLeaves(given[CHOOSE j \in js : \A h \in js : j <= h])

NamesObject(leaf) == leaf.object[1] = "text"

\* The normalized leaves from position k on stem, in order, from given leaves
\* from position j on.
RECURSIVE StemFrom(_, _, _, _, _)
StemFrom(leaves, k, given, j, defaultObjectType) ==
    IF k > Len(leaves) THEN TRUE
    ELSE IF j > Len(given) THEN FALSE
    ELSE \/ /\ NormalizedFrom(leaves[k], given[j], defaultObjectType)
            /\ StemFrom(leaves, k + 1, given, j + 1, defaultObjectType)
         \/ StemFrom(leaves, k, given, j + 1, defaultObjectType)

\* C39: when the children of the root are not all Leaves, the result keeps
\* only the first root-level Group whose glue is AND and the first whose glue
\* is OR, in any spelling: the leaves of its AND group and of its OR group
\* stem, in order, from the leaves below those two groups, all of which that
\* name an object are kept; the Leaves directly under the root, the further
\* AND and OR Groups and the Groups with another glue contribute nothing.
C39_FirstGroupsOnly ==
    \A c \in Callers :
       LET call == cf.call[c]
           given == RootChildren(call.conditions)
       IN  call.body # <<>> /\ (\E j \in DOMAIN given : ~GivenLeaf(given[j]))
              => LET tree == call.body[1].conditions
                 IN  \A g \in 1..2 :
                        LET glue == IF g = 1 THEN "and" ELSE "or"
                            kept == AllLeaves(tree.conditions[2][g])
                            from == FirstGroupLeaves(given, glue)
                        IN  /\ Len(kept) = Len(SelectSeq(from, NamesObject))
                            /\ StemFrom(kept, 1, from, 1, call.normalizedType)

\* A root with a Xor group, two OR groups and a leaf: the result holds the
\* one leaf of the first OR group and nothing else.
C39_Witness ==
    LET call == cf.call["A"]
        given == RootChildren(call.conditions)
    IN  /\ call.pc = "done"
        /\ Len(given) = 4
        /\ GivenGroupOf(given[1], "xor")
        /\ GivenGroupOf(given[2], "or") /\ GivenGroupOf(given[3], "or")
        /\ GivenLeaf(given[4])
        /\ Len(AllLeaves(given[1])) = 2
        /\ AllLeaves(given[2])[1].field_id = Text("Title")
        /\ AllLeaves(given[2])[1].object = Text("Deals")
        /\ AllLeaves(given[3])[1].field_id = Num(5)
        /\ AllLeaves(call.body[1].conditions.conditions[2][1]) = <<>>
        /\ Len(AllLeaves(call.body[1].conditions.conditions[2][2])) = 1
        /\ AllLeaves(call.body[1].conditions.conditions[2][2])[1].field_id = Text("21")

\* A root with two AND groups: only the leaves of the first are kept.
C39_WitnessSecondAnd ==
    LET call == cf.call["A"]
        given == RootChildren(call.conditions)
    IN  /\ call.pc = "done"
        /\ Len(given) = 3
        /\ GivenGroupOf(given[1], "and") /\ GivenGroupOf(given[2], "and")
        /\ Len(AllLeaves(given[1])) = 1 /\ Len(AllLeaves(given[2])) = 2
        /\ AllLeaves(given[2])[1].object = Text("Deals")
        /\ AllLeaves(given[2])[2].object = Text("Deals")
        /\ Len(AllLeaves(call.body[1].conditions.conditions[2][1])) = 1

(***************************************************************************)
(* Further properties of the digest build (checked under SpecDigest).      *)
(***************************************************************************)
LastResp(f) == f.resps[Len(f.resps)]

\* The fetch left its loop for a reason of its own: its limit is reached or
\* the last page carried no next cursor.
EndedOnItsOwn(f) ==
    /\ Len(f.calls) = Len(f.resps)
    /\ f.resps = <<>> => f.limit = 0
    /\ f.resps # <<>> => (Len(f.acc) >= f.limit \/ LastResp(f).next = NoCursor)

\* Once the build has failed, every primary fetch is waiting for a page that
\* can still be delivered to it, has returned for a reason of its own, or has
\* failed on its own request.
C37_LoopsAlive ==
    dg.pc = "failed" /\ (\E s \in Streams : fetch[s].pc = "failed") =>
       \A s \in Streams :
          /\ fetch[s].pc \in {"await", "returned", "failed"}
          /\ fetch[s].pc = "await" =>
                Len(fetch[s].calls) = Len(fetch[s].resps) + 1 /\ ENABLED PageResponse(s)
          /\ fetch[s].pc = "returned" => EndedOnItsOwn(fetch[s])
          /\ fetch[s].pc = "failed" => Len(fetch[s].calls) = Len(fetch[s].resps) + 1

\* A page delivered after the build has failed is handled as any other: the
\* next request follows unless the limit is reached or the cursor is missing.
C37_LoopsGoOn ==
    \A s \in Streams :
       (dg.pc = "failed" /\ Len(fetch'[s].resps) = Len(fetch[s].resps) + 1) =>
          LET g == fetch'[s]
          IN  IF Len(g.acc) < g.limit /\ LastResp(g).next # NoCursor
              THEN g.pc = "await" /\ Len(g.calls) = Len(fetch[s].calls) + 1
                   /\ LastCall(g).cursor = LastResp(g).next
              ELSE g.pc = "returned" /\ g.calls = fetch[s].calls

\* C37: no primary fetch is cancelled: after one of the three concurrent
\* primary fetches has failed and the build with it, the page loops of the
\* other two keep issuing page requests until they reach their own limit,
\* the end of their collection or a failure of their own.
C37_NoCancellation == []C37_LoopsAlive /\ [][C37_LoopsGoOn]_vars

\* The build failed when a fetch had issued one request; that fetch has
\* since issued a second one and returned.
C37_Witness ==
    /\ dg.pc = "failed"
    /\ \E s \in Streams :
          /\ dg.callsAtFailure[s] = 1
          /\ Len(fetch[s].calls) = 2
          /\ fetch[s].pc = "returned"
          /\ Len(fetch[s].result) > MaxPageSize

(***************************************************************************)
(* Properties of paging over both API versions (checked under              *)
(* SpecVersioned).                                                         *)
(***************************************************************************)
\* C31: a paged fetch returns the same item sequence, with no item
\* duplicated and none skipped, whichever API version serves each page: the
\* items received are the items of the collection in order from the first
\* on, every page starting right after the last item of the page before.
C31_SameSequence ==
    /\ \A j \in DOMAIN vp.fetch.received : vp.fetch.received[j] = j
    /\ vp.fetch.pc = "returned" =>
          \A j \in DOMAIN vp.fetch.result : vp.fetch.result[j] = j

\* The same, for fetches all of whose pages one API version served.
C31_OneVersion ==
    (\A j \in DOMAIN vp.served : vp.served[j] = vp.served[1]) => C31_SameSequence

C31_WitnessV1 ==
    /\ vp.fetch.pc = "returned"
    /\ vp.served = <<"v1", "v1", "v1">>
    /\ Len(vp.fetch.result) = MaxLimit

C31_WitnessMixed ==
    /\ vp.fetch.pc = "returned"
    /\ vp.served = <<"v2", "v1">>
    /\ vp.fetch.result[MaxPageSize + 1] = 1

\* The payload names neither a next cursor nor a next offset.
NoContinuation(payload) ==
    \/ payload.pagination = <<>>
    \/ /\ payload.pagination[1].next_cursor = Undefined
       /\ payload.pagination[1].next_start = Undefined

\* C32: a page served by the v1 API that names neither a next cursor nor a
\* next offset ends the fetch: it is the last page requested, and the fetch
\* has returned what it had accumulated, cut at the limit.
C32_EndOfStream ==
    \A j \in DOMAIN vp.served :
       (vp.served[j] = "v1" /\ NoContinuation(vp.payloads[j])) =>
          /\ Len(vp.fetch.calls) = j
          /\ vp.wire = "none"
          /\ vp.fetch.pc = "returned"
          /\ vp.fetch.result =
                SubSeq(vp.fetch.received, 1, Min(vp.fetch.limit, Len(vp.fetch.received)))

\* The v1 API served two full pages of a collection that holds more and left
\* next_start out of the second: the fetch returned the 200 items it had.
C32_Witness ==
    /\ vp.fetch.pc = "returned"
    /\ vp.fetch.limit = MaxLimit /\ vp.size = MaxLimit
    /\ vp.served = <<"v1", "v1">>
    /\ vp.payloads[1].pagination[1].next_start = Num(MaxPageSize)
    /\ vp.payloads[2].pagination # <<>>
    /\ NoContinuation(vp.payloads[2])
    /\ Len(vp.fetch.result) = 2 * MaxPageSize
    /\ Len(vp.sent) = 4

(***************************************************************************)
(* Properties of the single-entity getters (checked under SpecGetters).    *)
(***************************************************************************)
NotFound(error) == error.axios /\ error.status = 404

\* C33: getPerson, getOrganization and getStage never fail.  A call is
\* waiting for an answer or has returned; it has returned null when the
\* entity was found neither on the v2 API nor on the v1 fallback, as after
\* any other failure, and it has returned the entity when the API version
\* that answered supplied it.
C33_NeverFails ==
    /\ ge.pc \in {"idle", "ready", "v2", "v1", "returned"}
    /\ ge.pc \in {"v2", "v1"} => ge.result = <<>>
    /\ (ge.failures # <<>> /\ ge.pc # "v1" /\ ge.answers = <<>>) =>
          ge.pc = "returned" /\ ge.result = <<Null>>
    /\ (Len(ge.failures) = 2 /\ NotFound(ge.failures[1]) /\ NotFound(ge.failures[2])) =>
          ge.pc = "returned" /\ ge.result = <<Null>>
    /\ \A v \in {"v2", "v1"} :
          ge.answers = <<[version |-> v, body |-> <<[data |-> SingleEntity(ge.kind, ge.id)]>>]>>
             => ge.pc = "returned" /\ ge.result = <<SingleEntity(ge.kind, ge.id)>>

\* Not found on either API version: null.
C33_Witness ==
    /\ ge.pc = "returned"
    /\ ge.kind = "stage"
    /\ Len(ge.sent) = 2
    /\ ge.sent[2].url = <<"https://api.pipedrive.com/api", "/v1", "/stages", ge.id>>
    /\ Len(ge.failures) = 2 /\ NotFound(ge.failures[1]) /\ NotFound(ge.failures[2])
    /\ ge.result = <<Null>>

\* The v1 fallback supplied the entity.
C33_WitnessFallback ==
    /\ ge.pc = "returned"
    /\ ge.kind = "person"
    /\ Len(ge.failures) = 1
    /\ ge.answers # <<>> /\ ge.answers[1].version = "v1"
    /\ ge.result = <<SingleEntity("person", ge.id)>>

(***************************************************************************)
(* Properties of filter resolution and of the tool handler (checked under  *)
(* SpecTool).                                                              *)
(***************************************************************************)
\* The positions of the listed filters whose name is the given one, case
\* ignored.
NamedLike(listing, name) ==
    {j \in DOMAIN listing : ToLowerCase(listing[j].name) = ToLowerCase(name)}

\* C34: resolveFilterId returns a numeric input unchanged without any
\* upstream request.  For a name it returns the id of the one listed filter
\* of the expected type whose name equals it ignoring case; it fails with an
\* error saying that none was found when none matches, and with an error
\* that lists name, id and type of every candidate when several match.
C34_ResolveFilterId ==
    \A s \in Streams :
       LET r == tl.res[s]
       IN  /\ (r.pc # "idle" /\ r.value[1] = "num") =>
                 r.pc = "resolved" /\ r.out = <<"id", r.value[2]>> /\ r.requests = <<>>
           /\ (r.pc # "idle" /\ r.value[1] = "text" /\ r.listing # <<>>) =>
                 LET listing == r.listing[1]
                     like    == NamedLike(listing, r.value[2])
                 IN  /\ Cardinality(like) = 1 =>
                           /\ r.pc = "resolved"
                           /\ \E j \in like : r.out = <<"id", listing[j].id>>
                     /\ like = {} =>
                           /\ r.pc = "failed" /\ r.out[1] = "error"
                           /\ r.out[2][1] = "No filter found with name"
                           /\ r.out[2][2] = r.value[2]
                     /\ Cardinality(like) > 1 =>
                           /\ r.pc = "failed" /\ r.out[1] = "error"
                           /\ r.out[2][1] = "Multiple filters match name"
                           /\ r.out[2][2] = r.value[2]
                           /\ Len(r.out[2][3]) = Cardinality(like)
                           /\ \A j \in like :
                                 \E k \in DOMAIN r.out[2][3] :
                                    r.out[2][3][k] =
                                       <<listing[j].name, listing[j].id, listing[j].type>>

\* 'OVERDUE' resolved to the activity filter saved as 'Overdue' while 'today'
\* was refused for matching two filters, the third filter being a number.
C34_Witness ==
    /\ tl.res["overdue"].value = Text("today")
    /\ tl.res["overdue"].pc = "failed"
    /\ tl.res["overdue"].out[2] =
          <<"Multiple filters match name", "today",
            <<<<"Today", 12, "activity">>, <<"today", 14, "activity">>>>>>
    /\ tl.res["today"].value = Text("Overdue")
    /\ tl.res["today"].listing # <<>> /\ Len(tl.res["today"].listing[1]) = 3
    /\ tl.res["today"].out = <<"id", 11>>
    /\ tl.res["missing"].value = Num(13)
    /\ tl.res["missing"].out = <<"id", 13>>

C34_WitnessNone ==
    /\ tl.res["overdue"].value = Text("Ghost")
    /\ tl.res["overdue"].listing # <<>> /\ Len(tl.res["overdue"].listing[1]) = 3
    /\ tl.res["overdue"].out = <<"error", <<"No filter found with name", "Ghost", "activities">>>>

\* The handler returned an error result with the given text.
ErrorResult(text) ==
    tl.pc = "done" /\ tl.result = <<[isError |-> TRUE, text |-> text]>>

\* No stage, activity, deal or bulk request has been issued.
NothingRequested ==
    /\ dg = IdleDigest
    /\ \A s \in Streams : fetch[s] = IdleFetch
    /\ \A t \in EntityTypes : bulk[t] = IdleBulk

Started == tl.pc # "ready"

FiltersGiven == tl.args # <<>> /\ tl.args[1].filters # <<>>

AllValuesGiven ==
    FiltersGiven /\ \A s \in Streams : ~Falsy(tl.args[1].filters[1][s])

AllResolved == \A s \in Streams : tl.res[s].pc = "resolved"

\* A limit given as a number outside 1..200.
OutOfRange(v) == v[1] = "num" /\ (v[2] < 1 \/ v[2] > MaxToolLimit)

\* What the handler does apart from the limits: a missing filters object, a
\* missing filter value, a failed resolution and a failed build each end in
\* an error result with its message, a failed resolution without a single
\* request of the build.
ErrorsReported ==
    /\ (Started /\ ~FiltersGiven) =>
          ErrorResult(<<"Error: filters object is required">>) /\ NothingRequested
    /\ (Started /\ FiltersGiven /\ ~AllValuesGiven) =>
          /\ ErrorResult(<<"Error: All three filter IDs or names are required in filters object">>)
          /\ NothingRequested
    /\ (\E s \in Streams : tl.res[s].pc = "failed") =>
          /\ \E s \in Streams :
                /\ tl.res[s].pc = "failed"
                /\ ErrorResult(<<"Error resolving filter: ", tl.res[s].out[2]>>)
          /\ NothingRequested
    /\ (tl.pc = "done" /\ dg.pc = "failed") =>
          ErrorResult(<<"Error fetching sales queue digest: ", "message">>)
    /\ (tl.pc = "done" /\ ~tl.result[1].isError) =>
          dg.pc = "returned" /\ tl.result[1].text = <<"digest", dg.out[1]>>

\* C35: the handler never throws for a failure during tool execution: a
\* missing filters object, a missing filter value, a failed filter-name
\* resolution, an out-of-range limit or a failed digest build each yield a
\* result with isError = true and a readable message, and after a failed
\* resolution no activity, deal, stage or bulk request is issued.
C35_ErrorResults ==
    /\ ErrorsReported
    /\ (AllValuesGiven /\ AllResolved
          /\ \E s \in Streams : OutOfRange(LimitArg(tl.args, s))) =>
          /\ ErrorResult(<<"Error: All limits must be between 1 and 200">>)
          /\ NothingRequested

\* The same with a limit of 0 taken as a limit that was not given.
C35_ZeroAsDefault ==
    /\ ErrorsReported
    /\ (AllValuesGiven /\ AllResolved
          /\ \E s \in Streams : OutOfRange(LimitArg(tl.args, s))
                                   /\ LimitArg(tl.args, s) # Num(0)) =>
          /\ ErrorResult(<<"Error: All limits must be between 1 and 200">>)
          /\ NothingRequested

\* A limit of 0 for the overdue section: the build ran with the default limit
\* and its digest was returned.
C35_WitnessZero ==
    /\ tl.pc = "done"
    /\ FiltersGiven
    /\ LimitArg(tl.args, "overdue") = Num(0)
    /\ ~tl.result[1].isError
    /\ dg.limits["overdue"] = MaxItemsPerSection
    /\ Len(dg.out[1].sections.overdue) = MaxItemsPerSection

C35_WitnessErrors ==
    /\ ErrorResult(<<"Error: All limits must be between 1 and 200">>)
    /\ LimitArg(tl.args, "overdue") = Num(MaxToolLimit + 1)
    /\ tl.res["today"].listing # <<>>

====
